---- MODULE Spec2Model ----
(***************************************************************************)
(* Filename <-> heading synchronisation plugin (obsidian-filename-heading- *)
(* sync).  The module models                                               *)
(*   - the debounced variant (src/unnamed/part_001): event hooks deferred  *)
(*     behind waitForTemplater, the debounce timer, the two sync passes    *)
(*     and the isRenameInProgress flag                      (Spec);        *)
(*   - the advanced TitleCache variant (src/unnamed/part_002)  (SpecAdv);  *)
(*   - the sanitizer as a pure function                        (SpecSan).  *)
(* Text is a sequence of one-character strings; a document is the vault's  *)
(* data string, split into lines on every read exactly as the code does.   *)
(***************************************************************************)
EXTENDS Integers, Sequences, FiniteSets, Bags, TLC

VARIABLES
  settings,             \* this.settings (the fields the handlers read)
  templaterEnabled,     \* app.plugins.enabledPlugins.has('templater-obsidian')
  basename,             \* vault: file -> TFile.basename
  data,                 \* vault: file -> content string
  fileCache,            \* metadataCache: file -> frontmatter of the file (key -> value)
  extension,            \* vault: file -> TFile.extension
  editor,               \* file -> unsaved editor text of a dirty view, or NoData
  activeFile,           \* workspace.getActiveFile()
  isRenameInProgress,   \* the re-entrancy flag
  renameDebounceTimer,  \* NoTimer or the pending debounce timer
  deferred,             \* FIFO of hook callbacks waiting on waitForTemplater()
  passes,               \* bag of the asynchronous sync passes in flight
  writes,               \* FIFO of vault.modify calls issued, not yet applied
  titleCache,           \* advanced variant: TitleCache, oldest entry first
  uncaught,             \* number of promise rejections nobody caught
  ext,                  \* history: how many external events, and the first
  lastRename,           \* history: outcome of the last renameFile
  sinceModify,          \* history: ticks since the last modify event of a burst
  arg,                  \* pure-function specifications: the input
  res,                  \* pure-function specifications: the results so far
  timers,               \* the runtime's bag of pending timeouts of the plugin
  loaded                \* the plugin is loaded (onunload has not run)

vars == <<settings, templaterEnabled, basename, data, fileCache, extension, editor, activeFile,
          isRenameInProgress, renameDebounceTimer, deferred, passes, writes,
          titleCache, uncaught, ext, lastRename, sinceModify, arg, res,
          timers, loaded>>

-----------------------------------------------------------------------------
(* Text helpers: JavaScript string methods on sequences of characters.     *)

NL == "\n"

Min(S) == CHOOSE x \in S : \A y \in S : x <= y

\* String.prototype.trim and friends strip these characters.
IsWhite(c) == c \in {" ", "\t", NL}

RECURSIVE TrimStart(_)
TrimStart(s) ==
  IF s # <<>> /\ IsWhite(Head(s)) THEN TrimStart(Tail(s)) ELSE s

RECURSIVE TrimEnd(_)
TrimEnd(s) ==
  IF s # <<>> /\ IsWhite(s[Len(s)]) THEN TrimEnd(SubSeq(s, 1, Len(s) - 1)) ELSE s

Trim(s) == TrimEnd(TrimStart(s))

\* p occurs in s starting at (1-based) position i
IsPrefixAt(p, s, i) ==
  /\ i + Len(p) - 1 <= Len(s)
  /\ \A k \in 1..Len(p) : s[i + k - 1] = p[k]

StartsWith(s, p) == IsPrefixAt(p, s, 1)

Contains(s, p) == \E i \in 1..(Len(s) + 1) : IsPrefixAt(p, s, i)

\* s.substring(n)
Substring(s, n) == SubSeq(s, n + 1, Len(s))

RECURSIVE Count(_, _)
Count(s, c) ==
  IF s = <<>> THEN 0 ELSE (IF Head(s) = c THEN 1 ELSE 0) + Count(Tail(s), c)

\* data.split('\n')
RECURSIVE Split(_)
Split(s) ==
  IF \A i \in 1..Len(s) : s[i] # NL THEN <<s>>
  ELSE LET i == Min({k \in 1..Len(s) : s[k] = NL})
       IN  <<SubSeq(s, 1, i - 1)>> \o Split(SubSeq(s, i + 1, Len(s)))

\* lines.join(sep)
RECURSIVE JoinWith(_, _)
JoinWith(lines, sep) ==
  IF lines = <<>> THEN <<>>
  ELSE IF Len(lines) = 1 THEN lines[1]
  ELSE lines[1] \o sep \o JoinWith(Tail(lines), sep)

Join(lines) == JoinWith(lines, <<NL>>)

-----------------------------------------------------------------------------
(* The sanitizer.                                                          *)

\* const stockIllegalSymbols = /[\\/:|#^[\]]/g
stockIllegalSymbols == {"\\", "/", ":", "|", "#", "^", "[", "]"}

\* the characters regExpEscape puts a backslash in front of
RegExpSpecial ==
  {"\\", "^", "$", "*", "+", "?", ".", "(", ")", "|", "[", "]", "{", "}"}

RECURSIVE regExpEscape(_)
regExpEscape(str) ==
  IF str = <<>> THEN <<>>
  ELSE (IF Head(str) \in RegExpSpecial THEN <<"\\", Head(str)>> ELSE <<Head(str)>>)
         \o regExpEscape(Tail(str))

\* new RegExp(source, 'g') for the sources the plugin builds: alternatives
\* separated by an unescaped '|', each a run of literal or escaped characters.
\* The result is the list of alternatives, each as the literal text it matches.
RECURSIVE RegExpAlternatives(_, _, _)
RegExpAlternatives(source, i, cur) ==
  IF i > Len(source) THEN <<cur>>
  ELSE IF source[i] = "\\" /\ i < Len(source)
       THEN RegExpAlternatives(source, i + 2, Append(cur, source[i + 1]))
  ELSE IF source[i] = "|"
       THEN <<cur>> \o RegExpAlternatives(source, i + 1, <<>>)
  ELSE RegExpAlternatives(source, i + 1, Append(cur, source[i]))

\* Length of the match of the alternation at position i of text, -1 if none:
\* the first alternative, in source order, that matches there wins.
MatchLen(text, i, alts) ==
  LET hits == {k \in 1..Len(alts) : IsPrefixAt(alts[k], text, i)}
  IN  IF hits = {} THEN -1 ELSE Len(alts[Min(hits)])

\* text.replace(regexp, '') with the g flag: scan left to right, drop every
\* match, and step over one character after an empty match.
RECURSIVE ReplaceAll(_, _, _)
ReplaceAll(text, i, alts) ==
  IF i > Len(text) THEN <<>>
  ELSE LET m == MatchLen(text, i, alts)
       IN  IF m > 0 THEN ReplaceAll(text, i + m, alts)
           ELSE <<text[i]>> \o ReplaceAll(text, i + 1, alts)

userIllegalSymbolsRegExp(symbols) ==
  RegExpAlternatives(
    JoinWith([k \in 1..Len(symbols) |-> regExpEscape(symbols[k])], <<"|">>),
    1, <<>>)

\* sanitizeHeading with the user list given explicitly
Sanitize(text, symbols) ==
  LET stock == SelectSeq(text, LAMBDA c : c \notin stockIllegalSymbols)
  IN  Trim(ReplaceAll(stock, 1, userIllegalSymbolsRegExp(symbols)))

sanitizeHeading(text) == Sanitize(text, settings.userIllegalSymbols)

-----------------------------------------------------------------------------
(* The locator (debounced variant).  Line numbers are 0-based as in the    *)
(* code; lines[i + 1] is the code's fileLines[i].                          *)

NoHeading == [lineNumber |-> -1, text |-> <<>>, style |-> "none"]

Delimiter == <<"-", "-", "-">>
\* The backtick character (U+0060); written as an atom of its own because a
\* backtick inside a string literal confuses the comment lexer.
BackTick == "bt"

Fence == <<BackTick, BackTick, BackTick>>

\* For comparison: the index of the closing delimiter itself
findNoteStartAtCloser(fileLines) ==
  IF fileLines[1] = Delimiter
  THEN LET ends == {i \in 1..(Len(fileLines) - 1) : fileLines[i + 1] = Delimiter}
       IN  IF ends = {} THEN 0 ELSE Min(ends)
  ELSE 0

findNoteStart(fileLines) ==
  IF fileLines[1] = Delimiter
  THEN LET ends == {i \in 1..(Len(fileLines) - 1) : fileLines[i + 1] = Delimiter}
       IN  IF ends = {} THEN 0 ELSE Min(ends) + 1
  ELSE 0

\* /^=+$/
IsUnderline(s) == Len(s) > 0 /\ \A k \in 1..Len(s) : s[k] = "="

\* For comparison: the scan without the fence state
RECURSIVE findHeadingFromIgnoringFences(_, _, _)
findHeadingFromIgnoringFences(fileLines, i, insideCodeBlock) ==
  IF i >= Len(fileLines) THEN NoHeading
  ELSE
    LET line == TrimEnd(fileLines[i + 1])
        evenTicks == Count(line, BackTick) % 2 = 0
    IN  IF /\ StartsWith(line, <<"#", " ">>)
           /\ evenTicks
           /\ ~StartsWith(line, <<"\\", "#", " ">>)
          THEN [lineNumber |-> i, text |-> Substring(line, 2), style |-> "Prefix"]
        ELSE IF /\ i + 1 < Len(fileLines)
                /\ IsUnderline(Trim(fileLines[i + 2]))
                /\ Len(line) > 0
                /\ evenTicks
          THEN [lineNumber |-> i, text |-> line, style |-> "Underline"]
        ELSE findHeadingFromIgnoringFences(fileLines, i + 1, insideCodeBlock)

\* For comparison: the scan without the backtick count of a prefix heading
RECURSIVE findHeadingFromAnyBackticks(_, _, _)
findHeadingFromAnyBackticks(fileLines, i, insideCodeBlock) ==
  IF i >= Len(fileLines) THEN NoHeading
  ELSE
    LET line == TrimEnd(fileLines[i + 1])
        evenTicks == Count(line, BackTick) % 2 = 0
    IN  IF StartsWith(Trim(line), Fence)
          THEN findHeadingFromAnyBackticks(fileLines, i + 1, ~insideCodeBlock)
        ELSE IF insideCodeBlock
          THEN findHeadingFromAnyBackticks(fileLines, i + 1, insideCodeBlock)
        ELSE IF StartsWith(line, <<"#", " ">>)
          THEN [lineNumber |-> i, text |-> Substring(line, 2), style |-> "Prefix"]
        ELSE IF /\ i + 1 < Len(fileLines)
                /\ IsUnderline(Trim(fileLines[i + 2]))
                /\ Len(line) > 0
                /\ evenTicks
          THEN [lineNumber |-> i, text |-> line, style |-> "Underline"]
        ELSE findHeadingFromAnyBackticks(fileLines, i + 1, insideCodeBlock)

\* For comparison: the scan that tests the underline before the prefix
RECURSIVE findHeadingFromUnderlineFirst(_, _, _)
findHeadingFromUnderlineFirst(fileLines, i, insideCodeBlock) ==
  IF i >= Len(fileLines) THEN NoHeading
  ELSE
    LET line == TrimEnd(fileLines[i + 1])
        evenTicks == Count(line, BackTick) % 2 = 0
    IN  IF StartsWith(Trim(line), Fence)
          THEN findHeadingFromUnderlineFirst(fileLines, i + 1, ~insideCodeBlock)
        ELSE IF insideCodeBlock
          THEN findHeadingFromUnderlineFirst(fileLines, i + 1, insideCodeBlock)
        ELSE IF /\ i + 1 < Len(fileLines)
                /\ IsUnderline(Trim(fileLines[i + 2]))
                /\ Len(line) > 0
                /\ evenTicks
          THEN [lineNumber |-> i, text |-> line, style |-> "Underline"]
        ELSE IF /\ StartsWith(line, <<"#", " ">>)
                /\ evenTicks
                /\ ~StartsWith(line, <<"\\", "#", " ">>)
          THEN [lineNumber |-> i, text |-> Substring(line, 2), style |-> "Prefix"]
        ELSE findHeadingFromUnderlineFirst(fileLines, i + 1, insideCodeBlock)

\* For comparison: the scan that takes any line before an underline
RECURSIVE findHeadingFromAnyUnderlined(_, _, _)
findHeadingFromAnyUnderlined(fileLines, i, insideCodeBlock) ==
  IF i >= Len(fileLines) THEN NoHeading
  ELSE
    LET line == TrimEnd(fileLines[i + 1])
        evenTicks == Count(line, BackTick) % 2 = 0
    IN  IF StartsWith(Trim(line), Fence)
          THEN findHeadingFromAnyUnderlined(fileLines, i + 1, ~insideCodeBlock)
        ELSE IF insideCodeBlock
          THEN findHeadingFromAnyUnderlined(fileLines, i + 1, insideCodeBlock)
        ELSE IF /\ StartsWith(line, <<"#", " ">>)
                /\ evenTicks
                /\ ~StartsWith(line, <<"\\", "#", " ">>)
          THEN [lineNumber |-> i, text |-> Substring(line, 2), style |-> "Prefix"]
        ELSE IF /\ i + 1 < Len(fileLines)
                /\ IsUnderline(Trim(fileLines[i + 2]))
          THEN [lineNumber |-> i, text |-> line, style |-> "Underline"]
        ELSE findHeadingFromAnyUnderlined(fileLines, i + 1, insideCodeBlock)

RECURSIVE findHeadingFrom(_, _, _)
findHeadingFrom(fileLines, i, insideCodeBlock) ==
  IF i >= Len(fileLines) THEN NoHeading
  ELSE
    LET line == TrimEnd(fileLines[i + 1])
        evenTicks == Count(line, BackTick) % 2 = 0
    IN  IF StartsWith(Trim(line), Fence)
          THEN findHeadingFrom(fileLines, i + 1, ~insideCodeBlock)
        ELSE IF insideCodeBlock
          THEN findHeadingFrom(fileLines, i + 1, insideCodeBlock)
        ELSE IF /\ StartsWith(line, <<"#", " ">>)
                /\ evenTicks
                /\ ~StartsWith(line, <<"\\", "#", " ">>)
          THEN [lineNumber |-> i, text |-> Substring(line, 2), style |-> "Prefix"]
        ELSE IF /\ i + 1 < Len(fileLines)
                /\ IsUnderline(Trim(fileLines[i + 2]))
                /\ Len(line) > 0
                /\ evenTicks
          THEN [lineNumber |-> i, text |-> line, style |-> "Underline"]
        ELSE findHeadingFrom(fileLines, i + 1, insideCodeBlock)

\* For comparison: the scan from the top of the file
findHeadingFromLineZero(fileLines, startLine) == findHeadingFrom(fileLines, 0, FALSE)

findHeading(fileLines, startLine) == findHeadingFrom(fileLines, startLine, FALSE)

-----------------------------------------------------------------------------
(* The rewriter.  The code mutates fileLines in place and calls            *)
(* vault.modify(file, fileLines.join('\n')) after every line operation, so *)
(* an edit is a record: the array so far and the data of each write issued.*)

Edit0(fileLines) == [lines |-> fileLines, out |-> <<>>]

replaceLineInFile(ed, lineNumber, text) ==
  LET fileLines ==
        IF lineNumber >= Len(ed.lines)
        THEN Append(ed.lines, text \o <<NL>>)
        ELSE [ed.lines EXCEPT ![lineNumber + 1] = text]
  IN  [lines |-> fileLines, out |-> Append(ed.out, Join(fileLines))]

insertLineInFile(ed, lineNumber, text) ==
  LET fileLines ==
        IF lineNumber >= Len(ed.lines)
        THEN Append(ed.lines, text \o <<NL>>)
        ELSE SubSeq(ed.lines, 1, lineNumber) \o <<text>>
               \o SubSeq(ed.lines, lineNumber + 1, Len(ed.lines))
  IN  [lines |-> fileLines, out |-> Append(ed.out, Join(fileLines))]

insertHeading(ed, lineNumber, heading) ==
  IF settings.newHeadingStyle = "Underline"
  THEN insertLineInFile(insertLineInFile(ed, lineNumber, heading),
                        lineNumber + 1, settings.underlineString)
  ELSE insertLineInFile(ed, lineNumber, <<"#", " ">> \o heading)

\* For comparison: the replacement that always converts to the new style
replaceHeadingConverting(ed, lineNumber, oldStyle, newHeading) ==
  IF settings.newHeadingStyle = "Underline"
  THEN LET e1 == replaceLineInFile(ed, lineNumber, newHeading)
       IN  IF oldStyle = "Prefix"
           THEN insertLineInFile(e1, lineNumber + 1, settings.underlineString)
           ELSE replaceLineInFile(e1, lineNumber + 1, settings.underlineString)
  ELSE LET e1 == replaceLineInFile(ed, lineNumber, <<"#", " ">> \o newHeading)
       IN  IF oldStyle = "Prefix" THEN e1
           ELSE replaceLineInFile(e1, lineNumber + 1, <<>>)

replaceHeading(ed, lineNumber, oldStyle, newHeading) ==
  IF settings.replaceStyle
  THEN IF settings.newHeadingStyle = "Underline"
       THEN LET e1 == replaceLineInFile(ed, lineNumber, newHeading)
            IN  IF oldStyle = "Prefix"
                THEN insertLineInFile(e1, lineNumber + 1, settings.underlineString)
                ELSE replaceLineInFile(e1, lineNumber + 1, settings.underlineString)
       ELSE LET e1 == replaceLineInFile(ed, lineNumber, <<"#", " ">> \o newHeading)
            IN  IF oldStyle = "Prefix" THEN e1
                ELSE replaceLineInFile(e1, lineNumber + 1, <<>>)
  ELSE IF oldStyle = "Underline"
       THEN replaceLineInFile(ed, lineNumber, newHeading)
       ELSE replaceLineInFile(ed, lineNumber, <<"#", " ">> \o newHeading)


-----------------------------------------------------------------------------
(* The vault, the settings and the ignore rules.                           *)

Files == {"f1", "f2", "f3"}
NoFile == "none"
NoData == <<"(clean)">>
NoTimer == [file |-> NoFile, left |-> -1]

\* One tick of model time is 100 ms.
\* waitForTemplater's fallback timeout, setTimeout(..., 100): one tick.
TemplaterTimeout == 1
\* settings.renameDebounceTimeout, "Delay in milliseconds": the model runs with
\* the user setting 200 (two ticks) instead of the default 1000, which keeps
\* the timer longer than the Templater wait, as it is by default.
RenameDebounceTimeout == 2

MD == <<".", "m", "d">>

\* TFile.extension, and its characters in TFile.path
Extension(f) == extension[f]
ExtensionText(e) ==
  IF e = "md" THEN <<"m", "d">>
  ELSE IF e = "excalidraw" THEN <<"e", "x", "c", "a", "l", "i", "d", "r", "a", "w">>
  ELSE <<"p", "n", "g">>

\* TFile.path; every file lives in the vault's root folder
Path(f) == basename[f] \o <<".">> \o ExtensionText(extension[f])

EndsWith(s, p) == Len(p) <= Len(s) /\ IsPrefixAt(p, s, Len(s) - Len(p) + 1)

\* obj[key] on a plain object: the values here are strings, true or null
Lookup(obj, key) == IF key \in DOMAIN obj THEN obj[key] ELSE "undefined"
\* if (value), !!value: null, undefined, false and '' are falsy
Truthy(value) == value \notin {"null", "undefined", "false", ""}

\* !!fileCache?.frontmatter && !!fileCache.frontmatter[key]
FrontmatterHas(f, key) == Truthy(Lookup(fileCache[f], key))

isExcalidraw(f) ==
  \/ Extension(f) = "excalidraw"
  \/ EndsWith(Path(f), <<".", "e", "x", "c", "a", "l", "i", "d", "r", "a", "w">> \o MD)
  \/ FrontmatterHas(f, "excalidraw-plugin")

isKanban(f) == FrontmatterHas(f, "kanban-plugin")

\* An exclusion that looks at the extension only
isExcludedByExtension(f) == Extension(f) = "excalidraw"

isExcluded(f) == isExcalidraw(f) \/ isKanban(f)

\* the ignoredFiles object, whose values are all null
SetKey(obj, key) == [k \in (DOMAIN obj) \cup {key} |-> IF k = key THEN "null" ELSE obj[k]]
DeleteKey(obj, key) == [k \in (DOMAIN obj) \ {key} |-> obj[k]]
EmptyObject == [k \in {} |-> "null"]
\* A frontmatter with one key
Frontmatter1(key, value) == [k \in {key} |-> value]

\* new RegExp(source) throws on an unterminated class or group; the model's
\* ignore rules are literal text, alternations of literal text, or invalid.
RegExpCompiles(source) ==
  \A i \in 1..Len(source) :
    source[i] \in {"[", "("} => (i > 1 /\ source[i - 1] = "\\")

\* reg.exec(path) !== null: some alternative occurs somewhere in path
RegExpExec(source, path) ==
  LET alts == RegExpAlternatives(source, 1, <<>>)
  IN  \E k \in 1..Len(alts) : Contains(path, alts[k])

\* For comparison: the manual rule as a truthiness test of ignoredFiles[path]
fileIsIgnoredIfTruthy(f, path) ==
  IF isExcluded(f) THEN TRUE
  ELSE IF Truthy(Lookup(settings.ignoredFiles, path)) THEN TRUE
  ELSE IF settings.ignoreRegex = <<>> THEN FALSE
  ELSE IF ~RegExpCompiles(settings.ignoreRegex) THEN FALSE
  ELSE RegExpExec(settings.ignoreRegex, path)

fileIsIgnored(f, path) ==
  IF isExcluded(f) THEN TRUE
  ELSE IF Lookup(settings.ignoredFiles, path) # "undefined" THEN TRUE
  ELSE IF settings.ignoreRegex = <<>> THEN FALSE
  ELSE IF ~RegExpCompiles(settings.ignoreRegex) THEN FALSE
  ELSE RegExpExec(settings.ignoreRegex, path)

DEFAULT_SETTINGS ==
  [userIllegalSymbols |-> <<>>,
   ignoredFiles |-> EmptyObject,
   ignoreRegex |-> <<>>,
   useFileOpenHook |-> TRUE,
   useFileSaveHook |-> TRUE,
   newHeadingStyle |-> "Prefix",
   replaceStyle |-> FALSE,
   underlineString |-> <<"=", "=", "=">>,
   renameDebounceTimeout |-> RenameDebounceTimeout,
   insertHeadingIfMissing |-> TRUE,
   \* advanced variant only
   frontmatterTitleKey |-> <<"t", "i", "t", "l", "e">>,
   contentPrecedence |-> "frontmatter",
   syncFilename |-> {"heading"},
   syncHeading |-> {"filename"},
   syncFrontmatter |-> {}]


-----------------------------------------------------------------------------
(* Debounced variant: the event hooks.                                     *)

\* Bound: the number of external events (user edits, renames, opens,
\* commands) in a run.
MaxExt == 2

\* Bound: the number of sync passes in flight at once.
MaxPasses == 2

CanStartPass == BagCardinality(passes) < MaxPasses

\* The passes in flight with one more, and with one less
Put(bag, pass) == bag (+) SetToBag({pass})
Take(bag, pass) == bag (-) SetToBag({pass})

\* The texts the user types and the names the user gives a file.
Docs == { <<"#", " ", "b">>, <<"#", " ", "c">> }
Names == { <<"a", BackTick>> }

\* A .then() callback whose promise is resolved runs as a microtask, before
\* any other task.
MicrotaskPending == \E i \in 1..Len(deferred) : deferred[i].ready

\* A registration that ignores the hook settings
HookAlways(kind) == kind \in {"open", "modify", "rename"}

Hook(kind) ==
  IF kind = "open" THEN settings.useFileOpenHook ELSE settings.useFileSaveHook

\* onload's vault.on / workspace.on callbacks, registered with registerEvent
\* and so detached when the plugin unloads: with the hook enabled,
\* waitForTemplater().then(handler).  Without Templater the promise is already
\* resolved; with it, it resolves on a Templater event or after the timeout.
\* History: does a modify event on f count for the debounce, and if so does
\* it continue the burst (it comes less than the timeout after the last one)
ModifyQualifies(f) ==
  /\ Extension(f) = "md"
  /\ activeFile = f
  /\ ~fileIsIgnored(f, Path(f))

BurstOf(kind, f) ==
  IF kind # "modify" \/ ~ModifyQualifies(f) THEN "none"
  ELSE IF sinceModify < settings.renameDebounceTimeout THEN "cont"
  ELSE "new"

Defer(q, kind, f, oldPath, own) ==
  IF loaded /\ Hook(kind)
  THEN Append(q, [kind |-> kind, file |-> f, oldPath |-> oldPath, own |-> own,
                  burst |-> BurstOf(kind, f),
                  left |-> IF templaterEnabled THEN TemplaterTimeout ELSE 0,
                  ready |-> ~templaterEnabled])
  ELSE q

\* forceSyncHeadingToFilename / forceSyncFilenameToHeading up to the first
\* suspension: ensureFileSaved saves a dirty view of the file; with a clean
\* view the pass goes straight on to vault.read (and the filename pass has
\* sanitized the base name by then).
StartPass(op, f) ==
  [op |-> op, file |-> f,
   pc |-> IF editor[f] # NoData THEN "saving" ELSE "read",
   val |-> IF op = "f2h" /\ editor[f] = NoData
           THEN sanitizeHeading(basename[f]) ELSE <<>>]

\* handleSyncFilenameToHeading(file, oldPath): what the handler decides
handleSyncFilenameToHeading(f, oldPath) ==
  IF isRenameInProgress THEN "busy"
  ELSE IF Extension(f) # "md" THEN "notmd"
  ELSE IF fileIsIgnored(f, Trim(oldPath))
       THEN IF Path(f) = oldPath THEN "ignored"
            ELSE IF Truthy(Lookup(settings.ignoredFiles, oldPath))
                 THEN "migrate"
                 ELSE "ignored"
  ELSE "sync"

\* handleSyncHeadingToFile(file): does the modify event (re)start the timer
handleSyncHeadingToFile(f) ==
  /\ Extension(f) = "md"
  /\ activeFile = f
  /\ ~fileIsIgnored(f, Path(f))

\* The deferred callback at the head of the queue runs its handler.
RunFilenameHandler(e) ==
  LET f == e.file
      oldPath == IF e.kind = "open" THEN Path(f) ELSE e.oldPath
      decision == handleSyncFilenameToHeading(f, oldPath)
      ignoredFiles ==
        IF decision = "migrate"
        THEN SetKey(DeleteKey(settings.ignoredFiles, oldPath), Path(f))
        ELSE settings.ignoredFiles
  IN  /\ decision = "sync" => CanStartPass
      /\ settings' = [settings EXCEPT !.ignoredFiles = ignoredFiles]
      /\ passes' = IF decision = "sync"
                   THEN Put(passes, StartPass("f2h", f))
                   ELSE passes
      /\ UNCHANGED <<renameDebounceTimer, timers>>

\* setTimeout(callback, timeout) and clearTimeout(handle) of the runtime
setTimeout(bag, timer) == bag (+) SetToBag({timer})
clearTimeout(bag, handle) ==
  IF BagIn(handle, bag) THEN bag (-) SetToBag({handle}) ELSE bag

\* A handler that arms the new timer and lets the old one run
RunModifyHandlerNoClear(e) ==
  LET timer == [file |-> e.file, left |-> settings.renameDebounceTimeout]
      armed == handleSyncHeadingToFile(e.file)
  IN  /\ renameDebounceTimer' = IF armed THEN timer ELSE renameDebounceTimer
      /\ timers' = IF armed THEN setTimeout(timers, timer) ELSE timers
      /\ UNCHANGED <<settings, passes>>

RunModifyHandler(e) ==
  LET timer == [file |-> e.file, left |-> settings.renameDebounceTimeout]
      armed == handleSyncHeadingToFile(e.file)
      cleared == IF renameDebounceTimer # NoTimer
                 THEN clearTimeout(timers, renameDebounceTimer)
                 ELSE timers
  IN  /\ renameDebounceTimer' = IF armed THEN timer ELSE renameDebounceTimer
      /\ timers' = IF armed THEN setTimeout(cleared, timer) ELSE timers
      /\ UNCHANGED <<settings, passes>>

RunDeferred ==
  /\ deferred # <<>>
  /\ Head(deferred).ready \/ Head(deferred).left = 0
  /\ deferred' = Tail(deferred)
  /\ IF Head(deferred).kind = "modify"
     THEN RunModifyHandler(Head(deferred))
     ELSE RunFilenameHandler(Head(deferred))
  /\ UNCHANGED <<templaterEnabled, basename, data, fileCache, extension, editor, activeFile,
                 isRenameInProgress, writes, titleCache, uncaught, ext,
                 lastRename, sinceModify, arg, res, loaded>>

\* A Templater event resolves every waitForTemplater() promise still pending.
TemplaterEvent ==
  /\ templaterEnabled
  /\ ~MicrotaskPending
  /\ deferred # <<>>
  /\ deferred' = [i \in 1..Len(deferred) |-> [deferred[i] EXCEPT !.ready = TRUE]]
  /\ UNCHANGED <<settings, templaterEnabled, basename, data, fileCache, extension, editor,
                 activeFile, isRenameInProgress, renameDebounceTimer, passes,
                 writes, titleCache, uncaught, ext, lastRename, sinceModify, arg, res, timers, loaded>>

\* Every pending timeout is 100 ms nearer (the handle names its timeout by
\* its file and the time left, so it follows)
Elapse(bag) ==
  LET T == BagToSet(bag)
      E == {[t EXCEPT !.left = @ - 1] : t \in T}
  IN  [e \in E |-> CopiesIn([e EXCEPT !.left = @ + 1], bag)]

\* 100 ms pass: nothing is due, and some timer is running.
Tick ==
  /\ ~MicrotaskPending
  /\ \A i \in 1..Len(deferred) : deferred[i].left > 0
  /\ \A t \in BagToSet(timers) : t.left # 0
  /\ \/ deferred # <<>>
     \/ timers # EmptyBag
     \/ sinceModify < settings.renameDebounceTimeout
  /\ deferred' = [i \in 1..Len(deferred) |->
                    [deferred[i] EXCEPT !.left = @ - 1]]
  /\ timers' = Elapse(timers)
  /\ renameDebounceTimer' =
       IF renameDebounceTimer = NoTimer THEN NoTimer
       ELSE [renameDebounceTimer EXCEPT !.left = IF @ > 0 THEN @ - 1 ELSE 0]
  /\ sinceModify' = IF sinceModify < settings.renameDebounceTimeout
                    THEN sinceModify + 1 ELSE sinceModify
  /\ UNCHANGED <<settings, templaterEnabled, basename, data, fileCache, extension, editor,
                 activeFile, isRenameInProgress, passes, writes, titleCache,
                 uncaught, ext, lastRename, arg, res, loaded>>

\* A callback that starts the timer again (an interval, not a timeout)
TimerFireRearm ==
  /\ ~MicrotaskPending
  /\ CanStartPass
  /\ \E t \in BagToSet(timers) :
       LET again == [t EXCEPT !.left = settings.renameDebounceTimeout]
       IN  /\ t.left = 0
           /\ passes' = Put(passes, StartPass("h2f", t.file))
           /\ timers' = setTimeout(timers (-) SetToBag({t}), again)
           /\ renameDebounceTimer' = again
  /\ UNCHANGED <<settings, templaterEnabled, basename, data, fileCache, extension, editor,
                 activeFile, isRenameInProgress, deferred, writes, titleCache,
                 uncaught, ext, lastRename, sinceModify, arg, res, loaded>>

\* A due timeout's callback: forceSyncHeadingToFilename(file), then
\* renameDebounceTimer = null.
TimerFire ==
  /\ ~MicrotaskPending
  /\ CanStartPass
  /\ \E t \in BagToSet(timers) :
       /\ t.left = 0
       /\ passes' = Put(passes, StartPass("h2f", t.file))
       /\ timers' = timers (-) SetToBag({t})
  /\ renameDebounceTimer' = NoTimer
  /\ UNCHANGED <<settings, templaterEnabled, basename, data, fileCache, extension, editor,
                 activeFile, isRenameInProgress, deferred, writes, titleCache,
                 uncaught, ext, lastRename, sinceModify, arg, res, loaded>>


-----------------------------------------------------------------------------
(* Debounced variant: the two sync passes, step by step.                   *)

\* await ensureFileSaved(file) with a dirty view: leaf.view.save() writes the
\* editor text to the vault (a modify event), then the pass goes on to
\* vault.read; the filename pass sanitizes the base name at this point.
SaveDone(p) ==
  LET f == p.file
      dirty == editor[f] # NoData
  IN  /\ ~MicrotaskPending
      /\ p.pc = "saving"
      /\ data' = IF dirty THEN [data EXCEPT ![f] = editor[f]] ELSE data
      /\ editor' = [editor EXCEPT ![f] = NoData]
      /\ deferred' = IF dirty THEN Defer(deferred, "modify", f, <<>>, FALSE)
                     ELSE deferred
      /\ sinceModify' = IF dirty /\ ModifyQualifies(f) THEN 0 ELSE sinceModify
      /\ passes' = Put(Take(passes, p),
                       [p EXCEPT !.pc = "read",
                                 !.val = IF p.op = "f2h"
                                         THEN sanitizeHeading(basename[f])
                                         ELSE <<>>])
      /\ UNCHANGED <<settings, templaterEnabled, basename, fileCache, extension, activeFile,
                     isRenameInProgress, renameDebounceTimer, writes, titleCache,
                     uncaught, ext, lastRename, arg, res, timers, loaded>>

\* forceSyncHeadingToFilename, the vault.read callback: the title to rename
\* the file to, or <<>> when there is nothing to do.
headingToFilename(f, lines) ==
  LET heading == findHeading(lines, findNoteStart(lines))
      sanitizedHeading == sanitizeHeading(heading.text)
  IN  IF heading = NoHeading THEN <<>>
      ELSE IF /\ Len(sanitizedHeading) > 0
              /\ sanitizeHeading(basename[f]) # sanitizedHeading
           THEN sanitizedHeading
           ELSE <<>>

ReadDoneH2F(p) ==
  LET f == p.file
      target == headingToFilename(f, Split(data[f]))
  IN  /\ ~MicrotaskPending
      /\ p.op = "h2f" /\ p.pc = "read"
      /\ IF target # <<>>
         THEN /\ isRenameInProgress' = TRUE
              /\ passes' = Put(Take(passes, p),
                               [p EXCEPT !.pc = "rename", !.val = target])
         ELSE /\ passes' = Take(passes, p)
              /\ UNCHANGED isRenameInProgress
      /\ UNCHANGED <<settings, templaterEnabled, basename, data, fileCache, extension, editor,
                     activeFile, renameDebounceTimer, deferred, writes,
                     titleCache, uncaught, ext, lastRename, sinceModify, arg, res, timers, loaded>>

\* fileManager.renameFile rejects when the destination exists.
Collides(f, name) == \E g \in Files \ {f} : basename[g] = name

\* The vault renames the file and fires its rename event; renameFile's promise
\* is not resolved yet.
RenameApply(p) ==
  LET f == p.file
  IN  /\ ~MicrotaskPending
      /\ p.pc = "rename"
      /\ ~Collides(f, p.val)
      /\ basename' = [basename EXCEPT ![f] = p.val]
      /\ extension' = [extension EXCEPT ![f] = "md"]
      /\ deferred' = Defer(deferred, "rename", f, Path(f), TRUE)
      /\ passes' = Put(Take(passes, p), [p EXCEPT !.pc = "renamed"])
      /\ UNCHANGED <<settings, templaterEnabled, data, fileCache, editor,
                     activeFile, isRenameInProgress, renameDebounceTimer, writes,
                     titleCache, uncaught, ext, lastRename, sinceModify, arg, res, timers, loaded>>

\* The try statement below without its finally block: a rejection leaves
\* the flag as it is and escapes.
AfterRenameWithoutFinally(rejected) ==
  IF rejected THEN <<isRenameInProgress, uncaught + 1>> ELSE <<FALSE, uncaught>>

\* try { await renameFile } catch {} finally { isRenameInProgress = false }:
\* the values of <<isRenameInProgress, uncaught>> after the try statement
AfterRename(rejected) == <<FALSE, uncaught>>

RenameReject(p) ==
  /\ ~MicrotaskPending
  /\ p.op = "h2f" /\ p.pc = "rename"
  /\ Collides(p.file, p.val)
  /\ isRenameInProgress' = AfterRename(TRUE)[1]
  /\ uncaught' = AfterRename(TRUE)[2]
  /\ lastRename' = "rejected"
  /\ passes' = Take(passes, p)
  /\ UNCHANGED <<settings, templaterEnabled, basename, data, fileCache, extension, editor,
                 activeFile, renameDebounceTimer, deferred, writes,
                 titleCache, ext, sinceModify, arg, res, timers, loaded>>

RenameDone(p) ==
  /\ ~MicrotaskPending
  /\ p.op = "h2f" /\ p.pc = "renamed"
  /\ isRenameInProgress' = AfterRename(FALSE)[1]
  /\ uncaught' = AfterRename(FALSE)[2]
  /\ lastRename' = "ok"
  /\ passes' = Take(passes, p)
  /\ UNCHANGED <<settings, templaterEnabled, basename, data, fileCache, extension, editor,
                 activeFile, renameDebounceTimer, deferred, writes,
                 titleCache, ext, sinceModify, arg, res, timers, loaded>>

\* forceSyncFilenameToHeading, the vault.read callback: the vault.modify
\* calls it issues (the data of each, in order).
filenameToHeading(lines, sanitizedHeading) ==
  LET start == findNoteStart(lines)
      heading == findHeading(lines, start)
  IN  IF heading # NoHeading
      THEN IF sanitizeHeading(heading.text) # sanitizedHeading
           THEN replaceHeading(Edit0(lines), heading.lineNumber, heading.style,
                               sanitizedHeading).out
           ELSE <<>>
      ELSE IF settings.insertHeadingIfMissing
           THEN insertHeading(Edit0(lines), start, sanitizedHeading).out
           ELSE <<>>

ReadDoneF2H(p) ==
  LET f == p.file
      out == filenameToHeading(Split(data[f]), p.val)
  IN  /\ ~MicrotaskPending
      /\ p.op = "f2h" /\ p.pc = "read"
      /\ writes' = writes \o [k \in 1..Len(out) |-> [file |-> f, data |-> out[k]]]
      /\ passes' = Take(passes, p)
      /\ UNCHANGED <<settings, templaterEnabled, basename, data, fileCache, extension, editor,
                     activeFile, isRenameInProgress, renameDebounceTimer,
                     deferred, titleCache, uncaught, ext, lastRename, sinceModify,
                     arg, res, timers, loaded>>

\* The vault carries out the oldest vault.modify and fires its modify event.
ApplyWrite ==
  /\ ~MicrotaskPending
  /\ writes # <<>>
  /\ LET w == Head(writes)
     IN  /\ data' = [data EXCEPT ![w.file] = w.data]
         /\ deferred' = Defer(deferred, "modify", w.file, <<>>, FALSE)
         /\ sinceModify' = IF ModifyQualifies(w.file) THEN 0 ELSE sinceModify
  /\ writes' = Tail(writes)
  /\ UNCHANGED <<settings, templaterEnabled, basename, fileCache, extension, editor,
                 activeFile, isRenameInProgress, renameDebounceTimer, passes,
                 titleCache, uncaught, ext, lastRename, arg, res, timers, loaded>>


-----------------------------------------------------------------------------
(* The environment: the user and the host application.                     *)

CountExt(kind, f) ==
  IF ext.n = 0
  THEN [n |-> 1, kind |-> kind, file |-> f, ignored |-> fileIsIgnored(f, Path(f))]
  ELSE [n |-> ext.n + 1, kind |-> "many", file |-> NoFile, ignored |-> FALSE]

ExtAllowed == ext.n < MaxExt /\ ~MicrotaskPending

\* The user types in the editor of the active file: the view becomes dirty.
UserType(d) ==
  /\ ExtAllowed
  /\ activeFile # NoFile
  /\ d # (IF editor[activeFile] # NoData THEN editor[activeFile] ELSE data[activeFile])
  /\ editor' = [editor EXCEPT ![activeFile] = d]
  /\ ext' = CountExt("edit", activeFile)
  /\ UNCHANGED <<settings, templaterEnabled, basename, data, fileCache, extension, activeFile,
                 isRenameInProgress, renameDebounceTimer, deferred, passes,
                 writes, titleCache, uncaught, lastRename, sinceModify, arg, res, timers, loaded>>

\* The host saves a dirty view: the vault's modify event follows.
AutoSave(f) ==
  /\ ~MicrotaskPending
  /\ editor[f] # NoData
  /\ data' = [data EXCEPT ![f] = editor[f]]
  /\ editor' = [editor EXCEPT ![f] = NoData]
  /\ deferred' = Defer(deferred, "modify", f, <<>>, FALSE)
  /\ sinceModify' = IF ModifyQualifies(f) THEN 0 ELSE sinceModify
  /\ UNCHANGED <<settings, templaterEnabled, basename, fileCache, extension, activeFile,
                 isRenameInProgress, renameDebounceTimer, passes, writes,
                 titleCache, uncaught, ext, lastRename, arg, res, timers, loaded>>

\* The user renames a file: the vault's rename event follows.
UserRename(f, name) ==
  /\ ExtAllowed
  /\ name # basename[f]
  /\ ~Collides(f, name)
  /\ basename' = [basename EXCEPT ![f] = name]
  /\ deferred' = Defer(deferred, "rename", f, Path(f), FALSE)
  /\ ext' = CountExt("rename", f)
  /\ UNCHANGED <<settings, templaterEnabled, data, fileCache, extension, editor, activeFile,
                 isRenameInProgress, renameDebounceTimer, passes, writes,
                 titleCache, uncaught, lastRename, sinceModify, arg, res, timers, loaded>>

\* The user opens another file: the workspace's file-open event follows.
UserOpen(f) ==
  /\ ExtAllowed
  /\ f # activeFile
  /\ activeFile' = f
  /\ deferred' = Defer(deferred, "open", f, <<>>, FALSE)
  /\ ext' = CountExt("open", f)
  /\ UNCHANGED <<settings, templaterEnabled, basename, data, fileCache, extension, editor,
                 isRenameInProgress, renameDebounceTimer, passes, writes,
                 titleCache, uncaught, lastRename, sinceModify, arg, res, timers, loaded>>

\* Command 'Ignore current file'
CmdIgnoreFile ==
  /\ loaded
  /\ ExtAllowed
  /\ activeFile # NoFile
  /\ Path(activeFile) \notin DOMAIN settings.ignoredFiles
  /\ settings' = [settings EXCEPT
                    !.ignoredFiles = SetKey(@, Path(activeFile))]
  /\ ext' = CountExt("ignore", activeFile)
  /\ UNCHANGED <<templaterEnabled, basename, data, fileCache, extension, editor, activeFile,
                 isRenameInProgress, renameDebounceTimer, deferred, passes,
                 writes, titleCache, uncaught, lastRename, sinceModify, arg, res, timers, loaded>>

\* Commands 'Sync Filename to Heading' and 'Sync Heading to Filename'
CmdSync(op) ==
  /\ loaded
  /\ ExtAllowed
  /\ activeFile # NoFile
  /\ CanStartPass
  /\ passes' = Put(passes, StartPass(op, activeFile))
  /\ ext' = CountExt("command", activeFile)
  /\ UNCHANGED <<settings, templaterEnabled, basename, data, fileCache, extension, editor,
                 activeFile, isRenameInProgress, renameDebounceTimer, deferred,
                 writes, titleCache, uncaught, lastRename, sinceModify, arg, res, timers, loaded>>

\* The user disables the plugin: onunload clears the pending timer. The
\* event registrations and the commands go with the plugin; callbacks,
\* reads, writes and renames already under way are not stopped.
Unload ==
  /\ loaded
  /\ ~MicrotaskPending
  /\ loaded' = FALSE
  /\ timers' = IF renameDebounceTimer # NoTimer
               THEN clearTimeout(timers, renameDebounceTimer)
               ELSE timers
  /\ renameDebounceTimer' = NoTimer
  /\ UNCHANGED <<settings, templaterEnabled, basename, data, fileCache, extension, editor,
                 activeFile, isRenameInProgress, deferred, passes, writes,
                 titleCache, uncaught, ext, lastRename, sinceModify, arg, res>>

-----------------------------------------------------------------------------
(* Specification of the debounced variant.                                 *)

NoExt == [n |-> 0, kind |-> "none", file |-> NoFile, ignored |-> FALSE]

A == <<"a">>
B == <<"b">>
SpaceB == <<" ", "b">>

\* The vault at start: f1 is "a.md", open, with the heading "# a"; f2 is
\* " b.md" (a name with a leading blank, as a file made outside the editor
\* can have), has no heading, and the user has run 'Ignore current file' on
\* it; f3 is "b.md" and has no heading.
\* The plugin after onload, with the settings, the names, the frontmatter
\* and the extensions of the vault's files given
Loaded(s, names, frontmatter, extensions) ==
  /\ templaterEnabled \in BOOLEAN
  /\ basename = names
  /\ settings = s
  /\ data = [f \in Files |-> IF f = "f1" THEN <<"#", " ", "a">> ELSE <<"x">>]
  /\ fileCache = frontmatter
  /\ extension = extensions
  /\ editor = [f \in Files |-> NoData]
  /\ activeFile = "f1"
  /\ isRenameInProgress = FALSE
  /\ renameDebounceTimer = NoTimer
  /\ deferred = <<>>
  /\ passes = EmptyBag
  /\ writes = <<>>
  /\ titleCache = <<>>
  /\ uncaught = 0
  /\ ext = NoExt
  /\ lastRename = "none"
  /\ sinceModify = RenameDebounceTimeout
  /\ timers = EmptyBag
  /\ loaded = TRUE
  /\ arg = <<>>
  /\ res = <<>>

InitNames == [f \in Files |-> IF f = "f1" THEN A ELSE IF f = "f2" THEN SpaceB ELSE B]
InitSettings == [DEFAULT_SETTINGS EXCEPT !.ignoredFiles = SetKey(EmptyObject, SpaceB \o MD)]
Notes == [f \in Files |-> "md"]
NoFrontmatter == [f \in Files |-> EmptyObject]

Init == Loaded(InitSettings, InitNames, NoFrontmatter, Notes)

Next ==
  \/ \E d \in Docs : UserType(d)
  \/ \E f \in Files : AutoSave(f)
  \/ \E f \in Files, name \in Names : UserRename(f, name)
  \/ \E f \in Files : UserOpen(f)
  \/ CmdIgnoreFile
  \/ \E op \in {"f2h", "h2f"} : CmdSync(op)
  \/ TemplaterEvent
  \/ Tick
  \/ RunDeferred
  \/ TimerFire
  \/ \E p \in BagToSet(passes) : SaveDone(p)
  \/ \E p \in BagToSet(passes) : ReadDoneH2F(p)
  \/ \E p \in BagToSet(passes) : ReadDoneF2H(p)
  \/ \E p \in BagToSet(passes) : RenameApply(p)
  \/ \E p \in BagToSet(passes) : RenameReject(p)
  \/ \E p \in BagToSet(passes) : RenameDone(p)
  \/ ApplyWrite

Spec == Init /\ [][Next]_vars

-----------------------------------------------------------------------------
(* Properties of the debounced variant.                                    *)

\* The step in which the oldest deferred callback runs its handler
HandlerRuns(kind) ==
  /\ deferred # <<>>
  /\ Len(deferred') = Len(deferred) - 1
  /\ Head(deferred).kind = kind

\* The path the hook hands to handleSyncFilenameToHeading as oldPath
OldPathOf(e) == IF e.kind = "open" THEN Path(e.file) ELSE e.oldPath

PassesOn(f) == {q \in BagToSet(passes) : q.file = f}

RenameInFlight == \E q \in BagToSet(passes) : q.pc \in {"rename", "renamed"}

\* Nothing is pending: no callback, pass, write or timer, no unsaved text.
Quiescent ==
  /\ deferred = <<>>
  /\ passes = EmptyBag
  /\ writes = <<>>
  /\ renameDebounceTimer = NoTimer
  /\ \A f \in Files : editor[f] = NoData

\* The sanitized first heading of f equals its sanitized base name.
Consistent(f) ==
  LET lines == Split(data[f])
      heading == findHeading(lines, findNoteStart(lines))
  IN  /\ heading # NoHeading
      /\ sanitizeHeading(heading.text) = sanitizeHeading(basename[f])

\* C1: the handler of a rename event raised by the plugin's own renameFile
\* never starts a filename-to-heading sync, whenever it comes to run.
C1_OwnRenameIgnored ==
  [][(HandlerRuns("rename") /\ Head(deferred).own) => passes' = passes]_vars

\* C2: the debounce timer fires only after the quiet period that follows the
\* last modify event of a burst, and so once per burst: when it fires, the
\* next modify event still waiting for its handler does not continue the
\* burst of the event that set the timer (if it does, the sync runs inside
\* the burst, and that handler sets the timer for a second sync).
C2_OncePerBurst ==
  [][(renameDebounceTimer # NoTimer /\ renameDebounceTimer' = NoTimer)
       => LET waiting == {i \in 1..Len(deferred) : deferred[i].burst # "none"}
          IN  waiting # {} => deferred[Min(waiting)].burst # "cont"]_vars

\* C3: when the rename of a manually ignored file is handled, its old path
\* leaves ignoredFiles and its new path enters it.
C3_IgnoreFollowsRename ==
  [][(/\ HandlerRuns("rename")
      /\ Head(deferred).oldPath \in DOMAIN settings.ignoredFiles
      /\ Path(Head(deferred).file) # Head(deferred).oldPath)
       => /\ Head(deferred).oldPath \notin DOMAIN settings'.ignoredFiles
          /\ Path(Head(deferred).file) \in DOMAIN settings'.ignoredFiles]_vars

\* C4: a rename or file-open handler that runs while fileIsIgnored(file,
\* oldPath) holds starts no sync, so it causes no vault.modify and no
\* renameFile.
C4_IgnoredUntouched ==
  [][(/\ HandlerRuns("rename") \/ HandlerRuns("open")
      /\ fileIsIgnored(Head(deferred).file, OldPathOf(Head(deferred))))
       => passes' = passes]_vars

\* C5: no rejection of renameFile escapes, and isRenameInProgress is false
\* whenever no renameFile call is in flight, after a rejected rename as
\* after a successful one, so the next rename or open event is not dropped.
C5_FlagCleared ==
  /\ uncaught = 0
  /\ isRenameInProgress => RenameInFlight

\* C5, its case: a renameFile call was rejected and the pass has ended.
C5_Rejected ==
  /\ lastRename = "rejected"
  /\ ~RenameInFlight
  /\ ~isRenameInProgress

\* C7: two sync passes on the same file are never in progress at once.
C7_OnePassPerFile ==
  \A f \in Files :
    /\ Cardinality(PassesOn(f)) <= 1
    /\ \A q \in PassesOn(f) : CopiesIn(q, passes) = 1

\* C8: after a single triggering event (a rename, an open, a heading edit)
\* on a file that is not ignored, once everything the event set off has
\* settled, the sanitized first heading equals the sanitized base name.
C8_Converges ==
  (/\ Quiescent
   /\ ext.n = 1
   /\ ext.kind \in {"rename", "open", "edit"}
   /\ ~ext.ignored
   /\ ~fileIsIgnored(ext.file, Path(ext.file)))
    => Consistent(ext.file)

\* C12: a modify event (re)starts the debounce timer only if the file was a
\* markdown file, the active file and not ignored when the event arrived;
\* the handler of any other modify event leaves the timer as it is.
C12_QualifiedAtEvent ==
  [][(HandlerRuns("modify") /\ Head(deferred).burst = "none")
       => renameDebounceTimer' = renameDebounceTimer]_vars

\* C14: the handler of a rename event for a file that is not the active
\* file starts no sync of that file.
C14_OnlyActiveFile ==
  [][(HandlerRuns("rename") /\ Head(deferred).file # activeFile)
       => passes' = passes]_vars

\* ---- the hooks disabled in the settings ----

HookChoices ==
  { [InitSettings EXCEPT !.useFileOpenHook = o, !.useFileSaveHook = v] :
      o \in BOOLEAN, v \in BOOLEAN } \ {InitSettings}

InitHooks ==
  \E s \in HookChoices : Loaded(s, InitNames, NoFrontmatter, Notes)

SpecHooks == InitHooks /\ [][Next]_vars

\* C13: a modify or rename event that arrives while useFileSaveHook is false,
\* and an open event that arrives while useFileOpenHook is false, starts no
\* handler, so it leads to no vault.modify and no renameFile; with both hooks
\* disabled no handler and no timer ever exists and a synchronisation pass
\* starts only in the step of a manual command
C13_HooksOff ==
  [][ /\ (~settings.useFileSaveHook /\ (basename' # basename \/ data' # data))
           => (deferred' = deferred /\ renameDebounceTimer' = renameDebounceTimer)
      /\ (~settings.useFileOpenHook /\ activeFile' # activeFile)
           => (deferred' = deferred /\ passes' = passes)
      /\ (~settings.useFileSaveHook /\ ~settings.useFileOpenHook)
           => /\ deferred' = <<>>
              /\ renameDebounceTimer' = NoTimer
              /\ (passes' # passes /\ BagCardinality(passes') > BagCardinality(passes))
                   => (ext'.n = ext.n + 1 /\ (ext.n = 0 => ext'.kind = "command"))
    ]_vars

\* C13 happens: the save hook is off, the user has renamed a file and later
\* saved an edit of it, and the plugin has done nothing
C13_EventsDropped ==
  /\ ~settings.useFileSaveHook
  /\ \E f \in Files : data[f] \in Docs /\ basename[f] \in Names
  /\ writes = <<>>
  /\ passes = EmptyBag
  /\ deferred = <<>>

\* ---- files of other plugins in the vault ----

DotExcalidraw == <<".", "e", "x", "c", "a", "l", "i", "d", "r", "a", "w">>

\* Two vaults: in the first the active file is a drawing by its frontmatter,
\* f2 is a drawing by its path and f3 by its extension; in the second f2 is a
\* board, f3 carries the board key with the value false, and f2's path is
\* also in the plugin's list of ignored files
ExclVaults ==
  { [settings |-> DEFAULT_SETTINGS,
     names |-> [InitNames EXCEPT !["f2"] = B \o DotExcalidraw],
     frontmatter |-> [NoFrontmatter EXCEPT
                        !["f1"] = Frontmatter1("excalidraw-plugin", "parsed")],
     extensions |-> [Notes EXCEPT !["f3"] = "excalidraw"]],
    [settings |-> InitSettings,
     names |-> InitNames,
     frontmatter |-> [NoFrontmatter EXCEPT
                        !["f2"] = Frontmatter1("kanban-plugin", "basic"),
                        !["f3"] = Frontmatter1("kanban-plugin", "false")],
     extensions |-> Notes] }

InitExcl ==
  \E v \in ExclVaults : Loaded(v.settings, v.names, v.frontmatter, v.extensions)

SpecExcl == InitExcl /\ [][Next]_vars

\* The handler of an event runs for file f and neither starts a
\* synchronisation pass nor touches the debounce timer
HandlerSkips ==
  /\ passes' = passes
  /\ renameDebounceTimer' = renameDebounceTimer

HandlerRunsFor(f) ==
  /\ deferred # <<>>
  /\ Len(deferred') = Len(deferred) - 1
  /\ Head(deferred).file = f

\* Excluded by type as the sentence words it: by the presence of the key
ExcludedByKey(f) ==
  \/ Extension(f) = "excalidraw"
  \/ EndsWith(Path(f), DotExcalidraw \o MD)
  \/ "excalidraw-plugin" \in DOMAIN fileCache[f]
  \/ "kanban-plugin" \in DOMAIN fileCache[f]

\* Excluded by type with a frontmatter value that is truthy
ExcludedByValue(f) ==
  \/ Extension(f) = "excalidraw"
  \/ EndsWith(Path(f), DotExcalidraw \o MD)
  \/ Truthy(Lookup(fileCache[f], "excalidraw-plugin"))
  \/ Truthy(Lookup(fileCache[f], "kanban-plugin"))

TimerFires ==
  /\ renameDebounceTimer # NoTimer
  /\ renameDebounceTimer' = NoTimer
  /\ passes' # passes

\* C37: when the debounce timer fires, the heading-to-filename sync of its
\* file runs only if the file is at that moment the active file and not
\* ignored.
C37_CheckedAtFire ==
  [][TimerFires =>
       /\ activeFile = renameDebounceTimer.file
       /\ ~fileIsIgnored(renameDebounceTimer.file, Path(renameDebounceTimer.file))]_vars

\* C38: no accepted modify event is lost: a timer pending for file A is not
\* given up for a timer for another file B, so that the sync of A that the
\* timer stands for still runs.
C38_TimerKeptForFile ==
  [][(renameDebounceTimer # NoTimer /\ renameDebounceTimer' # NoTimer)
       => renameDebounceTimer'.file = renameDebounceTimer.file]_vars

\* ---- a file moved to an ignored path ----

\* The settings: an ignore regex that matches names with a backtick, or a
\* path with such a name in the list of ignored files
MoveSettings ==
  { [InitSettings EXCEPT !.ignoreRegex = <<BackTick>>],
    [InitSettings EXCEPT !.ignoredFiles = SetKey(@, <<"a", BackTick>> \o MD)] }

InitMove == \E s \in MoveSettings : Loaded(s, InitNames, NoFrontmatter, Notes)

SpecMove == InitMove /\ [][Next]_vars

\* C39: the handler of a rename event starts no filename-to-heading sync
\* for a file whose new path matches the ignore regex or is in the list of
\* ignored files.
C39_NewPathIgnored ==
  [][(/\ HandlerRuns("rename")
      /\ fileIsIgnored(Head(deferred).file, Path(Head(deferred).file)))
       => passes' = passes]_vars

\* ---- termination ----

\* The steps of the host and of the plugin: the editor saves a dirty view,
\* time passes, promises resolve, timers fire, reads, writes and renames
\* complete. The event loop runs each of them once it is due. (After one
\* event no sync starts on a dirty view, so none awaits leaf.view.save().)
RuntimeStep ==
  \/ \E f \in Files : AutoSave(f)
  \/ TemplaterEvent
  \/ Tick
  \/ RunDeferred
  \/ TimerFire
  \/ \E p \in BagToSet(passes) : ReadDoneH2F(p)
  \/ \E p \in BagToSet(passes) : ReadDoneF2H(p)
  \/ \E p \in BagToSet(passes) : RenameApply(p)
  \/ \E p \in BagToSet(passes) : RenameReject(p)
  \/ \E p \in BagToSet(passes) : RenameDone(p)
  \/ ApplyWrite

\* The one external event
UserStep ==
  \/ \E d \in Docs : UserType(d)
  \/ \E f \in Files, name \in Names : UserRename(f, name)
  \/ \E f \in Files : UserOpen(f)
  \/ CmdIgnoreFile
  \/ \E op \in {"f2h", "h2f"} : CmdSync(op)

\* The user acts once and then leaves the plugin alone.
NextLive ==
  \/ ext.n = 0 /\ UserStep
  \/ RuntimeStep

\* With or without an ignore rule for names with a backtick
InitLive == Init \/ InitMove

SpecLive == InitLive /\ [][NextLive]_vars /\ WF_vars(RuntimeStep)

\* C36: after a single external event (one rename, open or edit) the plugin
\* issues finitely many writes and renames and then is quiescent: there is no
\* endless rename, write, rename cycle.
C36_Settles ==
  (ext.n = 1) ~> Quiescent

\* One edit of the heading has led to a rename by the plugin, and to nothing
\* more.
C36_SettledAfterRename ==
  /\ ext.n = 1
  /\ ext.kind = "edit"
  /\ lastRename = "ok"
  /\ Quiescent

\* ---- the debounce timer and onunload ----

NextUnload == Next \/ Unload

SpecUnload == Init /\ [][NextUnload]_vars

\* At most one timeout of the plugin is pending, and renameDebounceTimer is
\* non-null exactly while one is pending, and then it is that one.
OneTimer ==
  /\ BagCardinality(timers) <= 1
  /\ renameDebounceTimer # NoTimer <=> timers # EmptyBag
  /\ renameDebounceTimer # NoTimer => BagIn(renameDebounceTimer, timers)

\* C34: at most one debounce timer is pending at any time,
\* renameDebounceTimer is non-null exactly while one is pending (an accepted
\* modify event cancels the pending timer before it starts the new one), and
\* after onunload no timer is pending, so that no debounced rename starts.
C34_OneTimerNoneAfterUnload ==
  /\ OneTimer
  /\ ~loaded => timers = EmptyBag

-----------------------------------------------------------------------------
(* Specification of the sanitizer as a pure function: the input text and   *)
(* the user's list are drawn from bounded sets, and one step sanitizes the *)
(* input, the next the result.                                             *)

\* Bound: the length of the text given to sanitizeHeading.
MaxLen == 4

SanChars == {"a", "b", " ", "#", "+"}

RECURSIVE Texts(_)
Texts(n) ==
  IF n = 0 THEN {<<>>}
  ELSE Texts(n - 1) \cup {Append(t, c) : t \in Texts(n - 1), c \in SanChars}

\* Lists the settings tab can store: value.split(',') of the text typed, so
\* "ab" gives ["ab"], ",a" gives ["", "a"], "+" gives ["+"].
SanSymbols ==
  { <<>>,
    << <<"a", "b">> >>,
    << <<>>, <<"a">> >>,
    << <<"+">> >> }

InitSan ==
  /\ settings \in {[DEFAULT_SETTINGS EXCEPT !.userIllegalSymbols = u] : u \in SanSymbols}
  /\ arg \in Texts(MaxLen)
  /\ res = <<>>
  /\ templaterEnabled = FALSE
  /\ basename = [f \in Files |-> IF f = "f1" THEN A ELSE B]
  /\ data = [f \in Files |-> <<>>]
  /\ fileCache = [f \in Files |-> EmptyObject]
  /\ extension = [f \in Files |-> "md"]
  /\ editor = [f \in Files |-> NoData]
  /\ activeFile = NoFile
  /\ isRenameInProgress = FALSE
  /\ renameDebounceTimer = NoTimer
  /\ deferred = <<>>
  /\ passes = EmptyBag
  /\ writes = <<>>
  /\ titleCache = <<>>
  /\ uncaught = 0
  /\ ext = NoExt
  /\ lastRename = "none"
  /\ sinceModify = RenameDebounceTimeout
  /\ timers = EmptyBag
  /\ loaded = TRUE

\* res[1] = sanitizeHeading(arg), res[2] = sanitizeHeading(res[1])
SanitizeStep ==
  /\ Len(res) < 2
  /\ res' = Append(res, sanitizeHeading(IF res = <<>> THEN arg ELSE res[Len(res)]))
  /\ UNCHANGED <<settings, templaterEnabled, basename, data, fileCache, extension, editor,
                 activeFile, isRenameInProgress, renameDebounceTimer, deferred,
                 passes, writes, titleCache, uncaught, ext, lastRename, sinceModify, arg, timers, loaded>>

NextSan == SanitizeStep

SpecSan == InitSan /\ [][NextSan]_vars

\* C9: sanitizeHeading is idempotent: sanitizing a sanitized text gives the
\* same text, for every input and every user list.
C9_Idempotent == Len(res) = 2 => res[2] = res[1]

\* C10: the result of sanitizeHeading holds no stock illegal character, no
\* occurrence of a non-empty string of the user's list, and no whitespace at
\* either end.
C10_Clean ==
  Len(res) >= 1 =>
    /\ \A k \in 1..Len(res[1]) : res[1][k] \notin stockIllegalSymbols
    /\ \A k \in 1..Len(settings.userIllegalSymbols) :
          settings.userIllegalSymbols[k] # <<>>
            => ~Contains(res[1], settings.userIllegalSymbols[k])
    /\ Trim(res[1]) = res[1]

-----------------------------------------------------------------------------
(* Specifications of the other pure functions: the input is drawn from a   *)
(* bounded set and one step applies the function.                          *)

\* The variables a pure function does not read
PureRest ==
  /\ templaterEnabled = FALSE
  /\ editor = [f \in Files |-> NoData]
  /\ activeFile = NoFile
  /\ isRenameInProgress = FALSE
  /\ renameDebounceTimer = NoTimer
  /\ deferred = <<>>
  /\ passes = EmptyBag
  /\ writes = <<>>
  /\ titleCache = <<>>
  /\ uncaught = 0
  /\ ext = NoExt
  /\ lastRename = "none"
  /\ sinceModify = RenameDebounceTimeout
  /\ timers = EmptyBag
  /\ loaded = TRUE

PureFrame ==
  UNCHANGED <<settings, templaterEnabled, basename, data, fileCache, extension,
              editor, activeFile, isRenameInProgress, renameDebounceTimer,
              deferred, passes, writes, titleCache, uncaught, ext, lastRename,
              sinceModify, arg, timers, loaded>>

\* Bound: the number of lines of a document given to the locator.
MaxLines == 4

\* The lines a document is made of: a delimiter, headings (plain, with a
\* trailing blank, with one backtick, escaped), fences (plain, indented),
\* underlines (plain, with a trailing blank), text (plain, with a trailing
\* blank) and the empty line.
LocLines ==
  { Delimiter,
    <<"#", " ", "a">>,
    <<"#", " ", "a", " ">>,
    <<"#", " ", BackTick>>,
    <<"\\", "#", " ", "a">>,
    Fence,
    <<" ">> \o Fence,
    <<"=", "=">>,
    <<"=", " ">>,
    <<"x">>,
    <<"x", " ">>,
    <<>> }

RECURSIVE LocDocs(_)
LocDocs(n) ==
  IF n = 1 THEN {<<l>> : l \in LocLines}
  ELSE LocDocs(n - 1) \cup {Append(d, l) : d \in LocDocs(n - 1), l \in LocLines}

InitLoc ==
  /\ arg \in LocDocs(MaxLines)
  /\ res = <<>>
  /\ settings = DEFAULT_SETTINGS
  /\ basename = [f \in Files |-> IF f = "f1" THEN A ELSE B]
  /\ data = [f \in Files |-> <<>>]
  /\ fileCache = [f \in Files |-> EmptyObject]
  /\ extension = [f \in Files |-> "md"]
  /\ PureRest

\* const start = this.findNoteStart(lines);
\* const heading = this.findHeading(lines, start);
LocateStep ==
  /\ res = <<>>
  /\ res' = <<[start |-> findNoteStart(arg),
               heading |-> findHeading(arg, findNoteStart(arg))]>>
  /\ PureFrame

NextLoc == LocateStep

SpecLoc == InitLoc /\ [][NextLoc]_vars

\* The ignore rule: fileIsIgnored(f1, path) for a file of every kind, a
\* path, a manual ignore list and an ignore regex.
IgnPaths == { A \o MD, SpaceB \o MD, <<"x", "[">> \o MD }

IgnRegexes == { <<>>, <<"a">>, <<"b", "|", "x">>, <<"[">>, <<"(", "a">>, <<"x", "\\", "[">> }

IgnLists == { EmptyObject, SetKey(EmptyObject, A \o MD), SetKey(EmptyObject, SpaceB \o MD) }


\* frontmatter, extension and base name of f1: a note, the three kinds of
\* drawing, a board, and a note whose marker has the value false
IgnKinds ==
  { <<EmptyObject, "md", A>>,
    <<Frontmatter1("excalidraw-plugin", "parsed"), "md", A>>,
    <<EmptyObject, "excalidraw", A>>,
    <<EmptyObject, "md", <<"a", ".", "e", "x", "c", "a", "l", "i", "d", "r", "a", "w">> >>,
    <<Frontmatter1("kanban-plugin", "basic"), "md", A>>,
    <<Frontmatter1("kanban-plugin", "false"), "md", A>> }

InitIgn ==
  /\ arg \in IgnPaths
  /\ res = <<>>
  /\ settings \in {[DEFAULT_SETTINGS EXCEPT !.ignoredFiles = l, !.ignoreRegex = r] :
                     l \in IgnLists, r \in IgnRegexes}
  /\ \E k \in IgnKinds :
        /\ fileCache = [f \in Files |-> IF f = "f1" THEN k[1] ELSE EmptyObject]
        /\ extension = [f \in Files |-> IF f = "f1" THEN k[2] ELSE "md"]
        /\ basename = [f \in Files |-> IF f = "f1" THEN k[3] ELSE B]
  /\ data = [f \in Files |-> <<>>]
  /\ PureRest

IgnoreStep ==
  /\ res = <<>>
  /\ res' = <<fileIsIgnored("f1", arg)>>
  /\ PureFrame

NextIgn == IgnoreStep

SpecIgn == InitIgn /\ [][NextIgn]_vars

TitleNames == { A, <<"a", "b">>, B }

TitleDocs ==
  { <<"x">>, <<"#", " ", "a">>, <<"#", " ", "a", "b">>, <<"#", " ", "#">>,
    <<"a", "b", NL, "=", "=">> }

InitTitle ==
  /\ arg \in TitleDocs
  /\ res = <<>>
  /\ settings \in {[DEFAULT_SETTINGS EXCEPT !.userIllegalSymbols = u,
                                            !.insertHeadingIfMissing = i] :
                     u \in SanSymbols, i \in BOOLEAN}
  /\ \E n \in TitleNames : basename = [f \in Files |-> IF f = "f1" THEN n ELSE SpaceB]
  /\ data = [f \in Files |-> arg]
  /\ fileCache = [f \in Files |-> EmptyObject]
  /\ extension = [f \in Files |-> "md"]
  /\ PureRest

\* The vault.read callbacks of forceSyncHeadingToFilename and
\* forceSyncFilenameToHeading on f1: the name to rename to (<<>> for no
\* rename) and the data of the vault.modify calls
TitleStep ==
  /\ res = <<>>
  /\ res' = <<[rename |-> headingToFilename("f1", Split(data["f1"])),
               writes |-> filenameToHeading(Split(data["f1"]),
                                            sanitizeHeading(basename["f1"]))]>>
  /\ PureFrame

NextTitle == TitleStep

SpecTitle == InitTitle /\ [][NextTitle]_vars

\* C11: an empty sanitized title is no usable title: with an empty sanitized
\* heading no renameFile is issued, and with an empty sanitized base name no
\* heading line is written or inserted.
C11_EmptyTitleSkipped ==
  Len(res) = 1 =>
    LET lines == Split(data["f1"])
        heading == findHeading(lines, findNoteStart(lines))
    IN  /\ (heading # NoHeading /\ sanitizeHeading(heading.text) = <<>>)
              => res[1].rename = <<>>
        /\ sanitizeHeading(basename["f1"]) = <<>> => res[1].writes = <<>>

\* What LocateStep found
Located == res[1]
\* The code's fileLines[i]
LineAt(i) == arg[i + 1]
LineNumbers == 0..(Len(arg) - 1)

\* C17: findNoteStart returns i + 1 for the first closing delimiter at an
\* index i >= 1 when line 0 is a delimiter and a closing one exists, else 0.
C17_NoteStart ==
  Len(res) = 1 =>
    LET start == Located.start
        opened == LineAt(0) = Delimiter
        closers == {i \in LineNumbers : i >= 1 /\ LineAt(i) = Delimiter}
    IN  /\ (opened /\ closers # {}) =>
              /\ start - 1 \in closers
              /\ \A i \in closers : start - 1 <= i
        /\ (~opened \/ closers = {}) => start = 0

\* a closed frontmatter block has been skipped
C17_Skipped == Len(res) = 1 /\ Located.start = 3 /\ Len(arg) = 4

\* A fence line, and the lines the scan from the note start takes
\* for the inside of a fence
FenceLine(i) == StartsWith(Trim(LineAt(i)), Fence)
FencesBefore(i) ==
  Cardinality({k \in LineNumbers : Located.start <= k /\ k < i /\ FenceLine(k)})
OutsideFence(i) == ~FenceLine(i) /\ FencesBefore(i) % 2 = 0

EvenBackticks(i) == Count(LineAt(i), BackTick) % 2 = 0
PrefixLine(i) ==
  StartsWith(TrimEnd(LineAt(i)), <<"#", " ">>) /\ EvenBackticks(i)
UnderlinedLine(i) ==
  /\ i + 1 \in LineNumbers
  /\ IsUnderline(Trim(LineAt(i + 1)))
  /\ TrimEnd(LineAt(i)) # <<>>
  /\ EvenBackticks(i)
Eligible ==
  {i \in LineNumbers : /\ i >= Located.start
                       /\ OutsideFence(i)
                       /\ PrefixLine(i) \/ UnderlinedLine(i)}

\* C18: findHeading never returns a fence line or a line inside a fence;
\* what it returns is the first eligible line outside any fence, and it
\* returns none only when there is no such line.
C18_OutsideFence ==
  Len(res) = 1 =>
    IF Located.heading = NoHeading THEN Eligible = {}
    ELSE /\ OutsideFence(Located.heading.lineNumber)
         /\ Located.heading.lineNumber \in Eligible
         /\ \A i \in Eligible : Located.heading.lineNumber <= i

\* a heading inside a fence was passed over for one after the fence
C18_Passed ==
  /\ Len(res) = 1
  /\ Located.heading # NoHeading
  /\ \E i \in LineNumbers :
        /\ i < Located.heading.lineNumber
        /\ PrefixLine(i)
        /\ ~OutsideFence(i) /\ ~FenceLine(i)

\* C19: findHeading(lines, findNoteStart(lines)) returns none or a line
\* number from the note start up to the last line, never a line of a closed
\* frontmatter block.
C19_AfterNoteStart ==
  Len(res) = 1 =>
    \/ Located.heading = NoHeading
    \/ /\ Located.heading.lineNumber >= findNoteStart(arg)
       /\ Located.heading.lineNumber < Len(arg)

\* a line starting with '# ' inside the frontmatter was not reported
C19_InFrontmatter ==
  /\ Len(res) = 1
  /\ Located.start = 3
  /\ PrefixLine(1)
  /\ Located.heading # NoHeading
  /\ Located.heading.lineNumber = 3

\* C20 as stated: a Prefix heading is a line that starts with '# ', does not
\* start with '\# ' and has an even number of backticks, and its text is the
\* rest of the line after the marker.
C20_PrefixText ==
  (Len(res) = 1 /\ Located.heading.style = "Prefix") =>
    LET line == LineAt(Located.heading.lineNumber)
    IN  /\ StartsWith(line, <<"#", " ">>)
        /\ ~StartsWith(line, <<"\\", "#", " ">>)
        /\ Count(line, BackTick) % 2 = 0
        /\ Located.heading.text = Substring(line, 2)

\* C20 amended: as above, but the text is the rest after the marker of the
\* line without its trailing whitespace.
C20_PrefixTextTrimmed ==
  (Len(res) = 1 /\ Located.heading.style = "Prefix") =>
    LET line == LineAt(Located.heading.lineNumber)
    IN  /\ StartsWith(line, <<"#", " ">>)
        /\ ~StartsWith(line, <<"\\", "#", " ">>)
        /\ Count(line, BackTick) % 2 = 0
        /\ Located.heading.text = Substring(TrimEnd(line), 2)

\* a Prefix heading was reported for a line with trailing whitespace
C20_Trailing ==
  /\ Len(res) = 1
  /\ Located.heading.style = "Prefix"
  /\ TrimEnd(LineAt(Located.heading.lineNumber)) # LineAt(Located.heading.lineNumber)

\* C21 as stated: an Underline heading is a non-empty line with an even
\* number of backticks whose next line is made of one or more '=' and
\* nothing else, and its text is the line verbatim.
C21_UnderlineText ==
  (Len(res) = 1 /\ Located.heading.style = "Underline") =>
    LET i == Located.heading.lineNumber
    IN  /\ LineAt(i) # <<>>
        /\ Count(LineAt(i), BackTick) % 2 = 0
        /\ i + 1 \in LineNumbers
        /\ IsUnderline(LineAt(i + 1))
        /\ Located.heading.text = LineAt(i)

\* C21 amended: the line without its trailing whitespace is non-empty and
\* has an even number of backticks, the next line without its surrounding
\* whitespace is made of one or more '=', and the text is the line without
\* its trailing whitespace.
C21_UnderlineTextTrimmed ==
  (Len(res) = 1 /\ Located.heading.style = "Underline") =>
    LET i == Located.heading.lineNumber
    IN  /\ TrimEnd(LineAt(i)) # <<>>
        /\ Count(LineAt(i), BackTick) % 2 = 0
        /\ i + 1 \in LineNumbers
        /\ IsUnderline(Trim(LineAt(i + 1)))
        /\ Located.heading.text = TrimEnd(LineAt(i))

\* an Underline heading was reported for a line with trailing whitespace
\* above an underline with trailing whitespace
C21_Trailing ==
  /\ Len(res) = 1
  /\ Located.heading.style = "Underline"
  /\ TrimEnd(LineAt(Located.heading.lineNumber)) # LineAt(Located.heading.lineNumber)
  /\ ~IsUnderline(LineAt(Located.heading.lineNumber + 1))

\* C22: findHeading returns the match with the smallest line index from the
\* start line on among the lines outside a fence that qualify as a Prefix
\* or an Underline heading, and a line that qualifies as both is reported
\* with style Prefix.
C22_FirstMatch ==
  Len(res) = 1 =>
    IF Eligible = {} THEN Located.heading = NoHeading
    ELSE LET i == Min(Eligible)
         IN  /\ Located.heading.lineNumber = i
             /\ Located.heading.style = IF PrefixLine(i) THEN "Prefix" ELSE "Underline"

\* the reported line qualifies as both, and a later line qualifies too
C22_Both ==
  /\ Len(res) = 1
  /\ Located.heading # NoHeading
  /\ PrefixLine(Located.heading.lineNumber)
  /\ UnderlinedLine(Located.heading.lineNumber)
  /\ \E i \in Eligible : i > Located.heading.lineNumber

-----------------------------------------------------------------------------
(* The advanced (TitleCache) variant: titles, the locators and the cache.  *)

\* null, as a title and as a cache field; no text equals it
Null == <<"(null)">>
\* what a template literal makes of null
NullText == <<"n", "u", "l", "l">>

\* new TitleCache(): maxSize = 100
TitleCacheMaxSize == 100

\* The Map inside TitleCache is a list of entries, oldest insertion first.
CacheHas(cache, path) == \E i \in 1..Len(cache) : cache[i].path = path
CacheEntry(cache, path) ==
  cache[CHOOSE i \in 1..Len(cache) : cache[i].path = path]
CacheDelete(cache, path) == SelectSeq(cache, LAMBDA e : e.path # path)
\* Map.set: a known key keeps its place, a new key goes last
MapSet(cache, path, heading, frontmatter) ==
  LET entry == [path |-> path, heading |-> heading, frontmatter |-> frontmatter]
  IN  IF CacheHas(cache, path)
      THEN [i \in 1..Len(cache) |-> IF cache[i].path = path THEN entry ELSE cache[i]]
      ELSE Append(cache, entry)

\* TitleCache.get: the cache afterwards (a hit becomes the newest entry)
TitleCacheGet(cache, path) ==
  IF CacheHas(cache, path)
  THEN Append(CacheDelete(cache, path), CacheEntry(cache, path))
  ELSE cache

\* For comparison: set without the eviction
TitleCacheSetUnbounded(cache, maxSize, path, heading, frontmatter) ==
  MapSet(cache, path, heading, frontmatter)

\* TitleCache.set of a cache constructed with maxSize: at capacity the
\* first key of the Map is deleted, then Map.set
TitleCacheSetAt(cache, maxSize, path, heading, frontmatter) ==
  MapSet(IF Len(cache) >= maxSize /\ cache # <<>> THEN Tail(cache) ELSE cache,
         path, heading, frontmatter)

TitleCacheSet(cache, path, heading, frontmatter) ==
  TitleCacheSetAt(cache, TitleCacheMaxSize, path, heading, frontmatter)

TitleCacheMove(cache, oldPath, newPath) ==
  IF CacheHas(cache, oldPath)
  THEN LET e == CacheEntry(cache, oldPath)
       IN  CacheDelete(MapSet(cache, newPath, e.heading, e.frontmatter), oldPath)
  ELSE cache

RECURSIVE advFindHeadingFrom(_, _)
advFindHeadingFrom(fileLines, i) ==
  IF i >= Len(fileLines) THEN NoHeading
  ELSE IF StartsWith(fileLines[i + 1], <<"#", " ">>)
    THEN [lineNumber |-> i, text |-> Substring(fileLines[i + 1], 2),
          style |-> "Prefix"]
  ELSE IF i + 1 < Len(fileLines) /\ IsUnderline(fileLines[i + 2])
    THEN [lineNumber |-> i, text |-> fileLines[i + 1], style |-> "Underline"]
  ELSE advFindHeadingFrom(fileLines, i + 1)

advFindHeading(fileLines, startLine) == advFindHeadingFrom(fileLines, startLine)

\* .replace(/^"|"$/g, ''): one quote off the front, one off the end
StripQuotes(t) ==
  LET t1 == IF t # <<>> /\ Head(t) = "\"" THEN Tail(t) ELSE t
  IN  IF t1 # <<>> /\ t1[Len(t1)] = "\"" THEN SubSeq(t1, 1, Len(t1) - 1) ELSE t1

FrontmatterKey == settings.frontmatterTitleKey \o <<":", " ">>

\* For comparison: the scan that does not stop at the closing delimiter
RECURSIVE findFrontmatterTitleAnywhere(_, _)
findFrontmatterTitleAnywhere(fileLines, i) ==
  IF i >= Len(fileLines) THEN NoHeading
  ELSE IF StartsWith(fileLines[i + 1], FrontmatterKey)
    THEN [lineNumber |-> i,
          text |-> StripQuotes(Substring(fileLines[i + 1],
                                         Len(settings.frontmatterTitleKey) + 2)),
          style |-> "Frontmatter"]
  ELSE findFrontmatterTitleAnywhere(fileLines, i + 1)

RECURSIVE findFrontmatterTitleFrom(_, _)
findFrontmatterTitleFrom(fileLines, i) ==
  IF i >= Len(fileLines) THEN NoHeading
  ELSE IF fileLines[i + 1] = Delimiter THEN NoHeading
  ELSE IF StartsWith(fileLines[i + 1], FrontmatterKey)
    THEN [lineNumber |-> i,
          text |-> StripQuotes(Substring(fileLines[i + 1],
                                         Len(settings.frontmatterTitleKey) + 2)),
          style |-> "Frontmatter"]
  ELSE findFrontmatterTitleFrom(fileLines, i + 1)

findFrontmatterTitle(fileLines) ==
  IF fileLines[1] # Delimiter THEN NoHeading
  ELSE findFrontmatterTitleFrom(fileLines, 1)

\* getTitle: null for a missing or empty title, else the sanitized title
getTitle(f, fileData, source) ==
  LET lines == Split(fileData)
      title ==
        IF source = "filename" THEN basename[f]
        ELSE IF source = "frontmatter" THEN findFrontmatterTitle(lines).text
        ELSE advFindHeading(lines, findNoteStart(lines)).text
  IN  IF title = <<>> THEN Null ELSE sanitizeHeading(title)

-----------------------------------------------------------------------------
(* The advanced variant: setTitle, syncTitle and the handlers.  An         *)
(* asynchronous call is a task in the bag passes; todo lists what it does  *)
(* after the read or rename it is waiting for, and tail tells whose end    *)
(* it runs then.                                                           *)

SetOp(title, target) == [kind |-> "set", title |-> title, src |-> "none", target |-> target]
SyncOp(source, target) == [kind |-> "sync", title |-> <<>>, src |-> source, target |-> target]

Task(op, f, pc, val, source, target, todo, tail) ==
  [op |-> op, file |-> f, path |-> Path(f), pc |-> pc, val |-> val,
   src |-> source, target |-> target, todo |-> todo, tail |-> tail]

\* titleCache.setFromFile(file): file.path is taken first, then the heading
\* and the frontmatter title are read, one after the other
SetFromFileTask(f) == Task("setFromFile", f, "read1", <<>>, "none", "none", <<>>, "none")

\* For comparison: a frontmatter write that opens a new block whenever no
\* title is found
setTitleEditsNewBlock(lines, title, target) ==
  LET text == IF title = Null THEN NullText ELSE title
      keyLine == FrontmatterKey \o <<"\"">> \o text \o <<"\"">>
      frontmatter == findFrontmatterTitle(lines)
  IN  IF frontmatter # NoHeading
      THEN IF sanitizeHeading(frontmatter.text) # title
           THEN replaceLineInFile(Edit0(lines), frontmatter.lineNumber, keyLine).out
           ELSE <<>>
      ELSE insertLineInFile(Edit0(lines), 0,
             Delimiter \o <<NL>> \o keyLine \o <<NL>> \o Delimiter).out

\* setTitle's writes for a content target: the data of each vault.modify
setTitleEdits(lines, title, target) ==
  LET text == IF title = Null THEN NullText ELSE title
      keyLine == FrontmatterKey \o <<"\"">> \o text \o <<"\"">>
      frontmatter == findFrontmatterTitle(lines)
      start == findNoteStart(lines)
      heading == advFindHeading(lines, start)
  IN  IF target = "frontmatter"
      THEN IF frontmatter # NoHeading
           THEN IF sanitizeHeading(frontmatter.text) # title
                THEN replaceLineInFile(Edit0(lines), frontmatter.lineNumber, keyLine).out
                ELSE <<>>
           ELSE IF lines[1] # Delimiter
                THEN insertLineInFile(Edit0(lines), 0,
                       Delimiter \o <<NL>> \o keyLine \o <<NL>> \o Delimiter).out
                ELSE insertLineInFile(Edit0(lines), 1, keyLine).out
      ELSE IF heading # NoHeading
           THEN IF sanitizeHeading(heading.text) # title
                THEN replaceHeading(Edit0(lines), heading.lineNumber, heading.style,
                                    text).out
                ELSE <<>>
           ELSE insertHeading(Edit0(lines), start, text).out

\* An asynchronous function runs on from its list of steps until it has to
\* wait or ends: where it stops (pc), and the flag it leaves.
\*   setTitle with target Filename sets the flag and returns, with or
\*   without a rename, and throws on title.length when the title is null;
\*   with a content target it sets the flag and reads the file;
\*   syncTitle reads the file for its source title.
RECURSIVE Run(_, _, _)
Run(f, todo, flag) ==
  IF todo = <<>>
  THEN [pc |-> "done", val |-> <<>>, src |-> "none", target |-> "none",
        todo |-> <<>>, flag |-> flag]
  ELSE LET o == Head(todo)
       IN  IF o.kind = "sync"
           THEN [pc |-> "sync-read", val |-> <<>>, src |-> o.src,
                 target |-> o.target, todo |-> Tail(todo), flag |-> flag]
           ELSE IF o.target = "filename"
           THEN IF o.title = Null
                THEN [pc |-> "threw", val |-> <<>>, src |-> "none",
                      target |-> "none", todo |-> <<>>, flag |-> TRUE]
                ELSE IF Len(o.title) > 0 /\ sanitizeHeading(basename[f]) # o.title
                THEN [pc |-> "rename", val |-> o.title, src |-> "none",
                      target |-> "filename", todo |-> Tail(todo), flag |-> TRUE]
                ELSE Run(f, Tail(todo), TRUE)
           ELSE [pc |-> "read", val |-> o.title, src |-> "none",
                 target |-> o.target, todo |-> Tail(todo), flag |-> TRUE]

\* What a task that runs on from todo leaves behind: the tasks now in
\* flight, the flag and the uncaught rejections.  handleSyncFromContent
\* (tail "content") ends with titleCache.setFromFile(file) and
\* isRenameInProgress = false; a rejection skips both.
Continue(f, todo, tail, flag) ==
  LET r == Run(f, todo, flag)
  IN  IF r.pc = "done"
      THEN [tasks |-> IF tail = "content" THEN <<SetFromFileTask(f)>> ELSE <<>>,
            flag |-> IF tail = "content" THEN FALSE ELSE r.flag,
            threw |-> 0]
      ELSE IF r.pc = "threw"
      THEN [tasks |-> <<>>, flag |-> r.flag, threw |-> 1]
      ELSE [tasks |-> <<Task("job", f, r.pc, r.val, r.src, r.target, r.todo, tail)>>,
            flag |-> r.flag, threw |-> 0]

RECURSIVE PutAll(_, _)
PutAll(bag, tasks) ==
  IF tasks = <<>> THEN bag ELSE PutAll(Put(bag, Head(tasks)), Tail(tasks))

\* The targets of a settings set, in a fixed order
Targets(set) == SelectSeq(<<"frontmatter", "heading", "filename">>, LAMBDA t : t \in set)

\* syncTitle(file, source, target): with the file name as the source the
\* title is at hand and setTitle starts at once; else the file is read
syncTitle(f, source, target, flag) ==
  IF source = "filename"
  THEN IF getTitle(f, <<>>, "filename") = Null
       THEN [tasks |-> <<>>, flag |-> flag, threw |-> 0]
       ELSE Continue(f, <<SetOp(getTitle(f, <<>>, "filename"), target)>>, "none", flag)
  ELSE Continue(f, <<SyncOp(source, target)>>, "none", flag)

RECURSIVE SyncAll(_, _, _)
SyncAll(f, targets, flag) ==
  IF targets = <<>> THEN [tasks |-> <<>>, flag |-> flag, threw |-> 0]
  ELSE LET c == syncTitle(f, "filename", Head(targets), flag)
           rest == SyncAll(f, Tail(targets), c.flag)
       IN  [tasks |-> c.tasks \o rest.tasks, flag |-> rest.flag,
            threw |-> c.threw + rest.threw]

\* handleSyncFromFilename(file, oldPath): what the handler decides
handleSyncFromFilename(f, oldPath) ==
  IF isRenameInProgress THEN "busy"
  ELSE IF Extension(f) # "md" THEN "notmd"
  ELSE IF fileIsIgnored(f, Trim(oldPath))
       THEN IF Path(f) = oldPath THEN "ignored"
            ELSE IF Truthy(Lookup(settings.ignoredFiles, oldPath))
                 THEN "migrate"
                 ELSE "ignored"
  ELSE "sync"

\* handleSyncFromFilename as a step: the settings, the tasks started and
\* the flag afterwards.  On "sync" every target of syncFilename gets
\* syncTitle(file, Filename, target), and titleCache.setFromFile follows.
FromFilename(f, oldPath) ==
  LET decision == handleSyncFromFilename(f, oldPath)
      c == SyncAll(f, Targets(settings.syncFilename), isRenameInProgress)
  IN  [ignoredFiles |->
         IF decision = "migrate"
         THEN SetKey(DeleteKey(settings.ignoredFiles, oldPath), Path(f))
         ELSE settings.ignoredFiles,
       tasks |-> IF decision = "sync" THEN c.tasks \o <<SetFromFileTask(f)>> ELSE <<>>,
       flag |-> IF decision = "sync" THEN c.flag ELSE isRenameInProgress]

\* handleSyncFromContent(file) up to its await: does it go on to read
handleSyncFromContent(f) ==
  /\ Extension(f) = "md"
  /\ activeFile = f
  /\ ~fileIsIgnored(f, Path(f))

\* handleSyncFromContent after Promise.all: the setTitle and syncTitle
\* calls it awaits, in order, from what changed against the cache entry
ContentTodo(entry, frontmatter, heading) ==
  LET precedence == settings.contentPrecedence
      nonPrecedence == IF precedence # "heading" THEN "heading" ELSE "frontmatter"
      changedF0 == entry.frontmatter # Null /\ frontmatter # entry.frontmatter
      changedH0 == entry.heading # Null /\ heading # entry.heading
      twoWay == /\ "frontmatter" \in settings.syncHeading
                /\ "heading" \in settings.syncFrontmatter
                /\ changedF0 /\ changedH0
      changedF == changedF0 /\ ~(twoWay /\ nonPrecedence = "frontmatter")
      changedH == changedH0 /\ ~(twoWay /\ nonPrecedence = "heading")
      one(cond, op) == IF cond THEN <<op>> ELSE <<>>
  IN  one(twoWay, SyncOp(precedence, nonPrecedence))
      \o one(changedH /\ "frontmatter" \in settings.syncHeading,
              SetOp(heading, "frontmatter"))
      \o one(changedH /\ "filename" \in settings.syncHeading,
              SetOp(heading, "filename"))
      \o one(changedF /\ "heading" \in settings.syncFrontmatter,
              SetOp(frontmatter, "heading"))
      \o one(changedF /\ "filename" \in settings.syncFrontmatter,
              SetOp(frontmatter, "filename"))

AdvEvent(q, kind, f, oldPath) ==
  Append(q, [kind |-> kind, file |-> f, oldPath |-> oldPath])

\* Room for the tasks of one more event
AdvRoom == BagCardinality(passes) < MaxPasses

\* An event's callbacks run before anything else happens.
AdvRunHandler ==
  /\ deferred # <<>>
  /\ deferred' = Tail(deferred)
  /\ LET e == Head(deferred)
         f == e.file
         md == Extension(f) = "md"
     IN  IF e.kind = "modify"
         THEN IF settings.useFileSaveHook /\ handleSyncFromContent(f)
              THEN /\ isRenameInProgress' = TRUE
                   /\ passes' = Put(passes, Task("job", f, "content1", <<>>, "none",
                                                 "none", <<>>, "content"))
                   /\ UNCHANGED <<settings, titleCache>>
              ELSE UNCHANGED <<settings, titleCache, isRenameInProgress, passes>>
         ELSE IF e.kind = "rename"
         THEN LET r == FromFilename(f, e.oldPath)
              IN  /\ titleCache' = TitleCacheMove(titleCache, e.oldPath, Path(f))
                  /\ IF settings.useFileSaveHook
                     THEN /\ settings' = [settings EXCEPT !.ignoredFiles = r.ignoredFiles]
                          /\ passes' = PutAll(passes, r.tasks)
                          /\ isRenameInProgress' = r.flag
                     ELSE UNCHANGED <<settings, passes, isRenameInProgress>>
         ELSE LET r == FromFilename(f, Path(f))
                  load == IF settings.useFileSaveHook /\ md
                          THEN <<SetFromFileTask(f)>> ELSE <<>>
              IN  /\ UNCHANGED titleCache
                  /\ IF settings.useFileOpenHook
                     THEN /\ settings' = [settings EXCEPT !.ignoredFiles = r.ignoredFiles]
                          /\ passes' = PutAll(passes, load \o r.tasks)
                          /\ isRenameInProgress' = r.flag
                     ELSE /\ passes' = PutAll(passes, load)
                          /\ UNCHANGED <<settings, isRenameInProgress>>
  /\ UNCHANGED <<templaterEnabled, basename, data, fileCache, extension, editor, activeFile,
                 renameDebounceTimer, writes, uncaught, ext, lastRename,
                 sinceModify, arg, res, timers, loaded>>

\* The frame of a task step of the advanced variant
AdvFrame ==
  UNCHANGED <<settings, templaterEnabled, fileCache, extension, editor, activeFile,
              renameDebounceTimer, ext, sinceModify, arg, res, timers, loaded>>

\* A vault.read of titleCache.setFromFile resolves.
SetFromFileRead(t) ==
  /\ deferred = <<>>
  /\ t.op = "setFromFile"
  /\ IF t.pc = "read1"
     THEN /\ passes' = Put(Take(passes, t),
                           [t EXCEPT !.pc = "read2",
                                     !.val = getTitle(t.file, data[t.file], "heading")])
          /\ UNCHANGED titleCache
     ELSE /\ passes' = Take(passes, t)
          /\ titleCache' = TitleCacheSet(titleCache, t.path, t.val,
                              getTitle(t.file, data[t.file], "frontmatter"))
  /\ UNCHANGED <<basename, data, isRenameInProgress, deferred, writes, uncaught,
                 lastRename>>
  /\ AdvFrame

\* A vault.read of handleSyncFromContent's Promise.all resolves; after the
\* second the callback compares the titles with the cache entry.
ContentRead(t) ==
  LET f == t.file
      frontmatter == t.val
      heading == getTitle(f, data[f], "heading")
      c == Continue(f, ContentTodo(CacheEntry(titleCache, Path(f)), frontmatter, heading),
                    "content", isRenameInProgress)
  IN  /\ deferred = <<>>
      /\ t.op = "job" /\ t.pc \in {"content1", "content2"}
      /\ IF t.pc = "content1"
         THEN /\ passes' = Put(Take(passes, t),
                               [t EXCEPT !.pc = "content2",
                                         !.val = getTitle(f, data[f], "frontmatter")])
              /\ UNCHANGED <<titleCache, isRenameInProgress, uncaught>>
         ELSE IF frontmatter = heading
         THEN /\ passes' = Take(passes, t)
              /\ isRenameInProgress' = FALSE
              /\ UNCHANGED <<titleCache, uncaught>>
         ELSE IF ~CacheHas(titleCache, Path(f))
         THEN \* cache is null: cache.frontmatter throws, the flag stays
              /\ passes' = Take(passes, t)
              /\ uncaught' = uncaught + 1
              /\ UNCHANGED <<titleCache, isRenameInProgress>>
         ELSE /\ titleCache' = TitleCacheGet(titleCache, Path(f))
              /\ passes' = PutAll(Take(passes, t), c.tasks)
              /\ isRenameInProgress' = c.flag
              /\ uncaught' = uncaught + c.threw
      /\ UNCHANGED <<basename, data, deferred, writes, lastRename>>
      /\ AdvFrame

\* The vault.read of setTitle (content target) or of syncTitle resolves.
JobRead(t) ==
  LET f == t.file
      out == setTitleEdits(Split(data[f]), t.val, t.target)
      title == getTitle(f, data[f], t.src)
      started == IF title = Null
                 THEN [tasks |-> <<>>, flag |-> isRenameInProgress, threw |-> 0]
                 ELSE Continue(f, <<SetOp(title, t.target)>>, "none",
                               isRenameInProgress)
      c == IF t.pc = "read"
           THEN Continue(f, t.todo, t.tail, FALSE)
           ELSE Continue(f, t.todo, t.tail, started.flag)
  IN  /\ deferred = <<>>
      /\ t.op = "job" /\ t.pc \in {"read", "sync-read"}
      /\ writes' = IF t.pc = "read"
                   THEN writes \o [k \in 1..Len(out) |-> [file |-> f, data |-> out[k]]]
                   ELSE writes
      /\ passes' = PutAll(Take(passes, t),
                          (IF t.pc = "read" THEN <<>> ELSE started.tasks) \o c.tasks)
      /\ isRenameInProgress' = c.flag
      /\ uncaught' = uncaught + c.threw
                       + (IF t.pc = "read" THEN 0 ELSE started.threw)
      /\ UNCHANGED <<basename, data, deferred, titleCache, lastRename>>
      /\ AdvFrame

\* The vault renames the file for setTitle and fires its rename event.
AdvRenameApply(t) ==
  /\ deferred = <<>>
  /\ t.op = "job" /\ t.pc = "rename"
  /\ ~Collides(t.file, t.val)
  /\ basename' = [basename EXCEPT ![t.file] = t.val]
  /\ deferred' = AdvEvent(deferred, "rename", t.file, Path(t.file))
  /\ extension' = [extension EXCEPT ![t.file] = "md"]
  /\ passes' = Put(Take(passes, t), [t EXCEPT !.pc = "renamed"])
  /\ UNCHANGED <<data, isRenameInProgress, writes, titleCache, uncaught, lastRename>>
  /\ UNCHANGED <<settings, templaterEnabled, fileCache, editor, activeFile,
                 renameDebounceTimer, ext, sinceModify, arg, res, timers, loaded>>

\* renameFile rejects: catch shows a Notice, and setTitle returns.
AdvRenameReject(t) ==
  LET c == Continue(t.file, t.todo, t.tail, isRenameInProgress)
  IN  /\ deferred = <<>>
      /\ t.op = "job" /\ t.pc = "rename"
      /\ Collides(t.file, t.val)
      /\ passes' = PutAll(Take(passes, t), c.tasks)
      /\ isRenameInProgress' = c.flag
      /\ uncaught' = uncaught + c.threw
      /\ lastRename' = "rejected"
      /\ UNCHANGED <<basename, data, deferred, writes, titleCache>>
      /\ AdvFrame

\* renameFile resolves: titleCache.move(oldPath, newPath), setTitle returns.
AdvRenameDone(t) ==
  LET c == Continue(t.file, t.todo, t.tail, isRenameInProgress)
  IN  /\ deferred = <<>>
      /\ t.op = "job" /\ t.pc = "renamed"
      /\ titleCache' = TitleCacheMove(titleCache, t.path, t.val \o MD)
      /\ passes' = PutAll(Take(passes, t), c.tasks)
      /\ isRenameInProgress' = c.flag
      /\ uncaught' = uncaught + c.threw
      /\ lastRename' = "ok"
      /\ UNCHANGED <<basename, data, deferred, writes>>
      /\ AdvFrame

\* The vault carries out the oldest vault.modify and fires its modify event.
AdvApplyWrite ==
  /\ deferred = <<>>
  /\ writes # <<>>
  /\ AdvRoom
  /\ data' = [data EXCEPT ![Head(writes).file] = Head(writes).data]
  /\ deferred' = AdvEvent(deferred, "modify", Head(writes).file, <<>>)
  /\ writes' = Tail(writes)
  /\ UNCHANGED <<basename, isRenameInProgress, passes, titleCache, uncaught,
                 lastRename>>
  /\ AdvFrame

-----------------------------------------------------------------------------
(* The advanced variant: the user, and the specification.                  *)

AdvExtAllowed == ext.n < MaxExt /\ deferred = <<>> /\ AdvRoom

Fm(title) == <<"-", "-", "-", NL>> \o FrontmatterKey \o title \o <<NL, "-", "-", "-">>

\* What the user leaves in the active file
AdvDocs ==
  { <<"#", " ", "b">>, <<"#", " ", "c">>, <<"x">>,
    Fm(<<"c">>) \o <<NL, "#", " ", "a">> }

\* The user edits the active file and the host saves it: a modify event.
AdvUserEdit(d) ==
  /\ AdvExtAllowed
  /\ activeFile # NoFile
  /\ d # data[activeFile]
  /\ data' = [data EXCEPT ![activeFile] = d]
  /\ deferred' = AdvEvent(deferred, "modify", activeFile, <<>>)
  /\ ext' = CountExt("edit", activeFile)
  /\ UNCHANGED <<settings, templaterEnabled, basename, fileCache, extension, editor, activeFile,
                 isRenameInProgress, renameDebounceTimer, passes, writes,
                 titleCache, uncaught, lastRename, sinceModify, arg, res, timers, loaded>>

\* The user renames a file: a rename event.
AdvUserRename(f, name) ==
  /\ AdvExtAllowed
  /\ name # basename[f]
  /\ ~Collides(f, name)
  /\ basename' = [basename EXCEPT ![f] = name]
  /\ deferred' = AdvEvent(deferred, "rename", f, Path(f))
  /\ ext' = CountExt("rename", f)
  /\ UNCHANGED <<settings, templaterEnabled, data, fileCache, extension, editor, activeFile,
                 isRenameInProgress, renameDebounceTimer, passes, writes,
                 titleCache, uncaught, lastRename, sinceModify, arg, res, timers, loaded>>

\* The user opens another file: a file-open event, taken by both hooks.
AdvUserOpen(f) ==
  /\ AdvExtAllowed
  /\ f # activeFile
  /\ activeFile' = f
  /\ deferred' = AdvEvent(deferred, "open", f, <<>>)
  /\ ext' = CountExt("open", f)
  /\ UNCHANGED <<settings, templaterEnabled, basename, data, fileCache, extension, editor,
                 isRenameInProgress, renameDebounceTimer, passes, writes,
                 titleCache, uncaught, lastRename, sinceModify, arg, res, timers, loaded>>

\* The six commands 'Sync <source> to <target>': syncTitle on the view's file
AdvCmdSync(source, target) ==
  LET c == syncTitle(activeFile, source, target, isRenameInProgress)
  IN  /\ AdvExtAllowed
      /\ activeFile # NoFile
      /\ source # target
      /\ passes' = PutAll(passes, c.tasks)
      /\ isRenameInProgress' = c.flag
      /\ uncaught' = uncaught + c.threw
      /\ ext' = CountExt("command", activeFile)
      /\ UNCHANGED <<settings, templaterEnabled, basename, data, fileCache, extension, editor,
                     activeFile, renameDebounceTimer, deferred, writes, titleCache,
                     lastRename, sinceModify, arg, res, timers, loaded>>

TitleTypes == {"filename", "heading", "frontmatter"}

\* After onload: f1 "a.md" is open with the heading "# a" and
\* titleCache.setFromFile is under way for it; f2 is " b.md", f3 is "b.md".
LoadedAdv(s, doc) ==
  /\ templaterEnabled = FALSE
  /\ basename = [f \in Files |-> IF f = "f1" THEN A ELSE IF f = "f2" THEN SpaceB ELSE B]
  /\ settings = s
  /\ data = [f \in Files |-> IF f = "f1" THEN doc ELSE <<"x">>]
  /\ fileCache = [f \in Files |-> EmptyObject]
  /\ extension = [f \in Files |-> "md"]
  /\ editor = [f \in Files |-> NoData]
  /\ activeFile = "f1"
  /\ isRenameInProgress = FALSE
  /\ renameDebounceTimer = NoTimer
  /\ deferred = <<>>
  /\ passes = Put(EmptyBag, SetFromFileTask("f1"))
  /\ writes = <<>>
  /\ titleCache = <<>>
  /\ uncaught = 0
  /\ ext = NoExt
  /\ lastRename = "none"
  /\ sinceModify = RenameDebounceTimeout
  /\ timers = EmptyBag
  /\ loaded = TRUE
  /\ arg = <<>>
  /\ res = <<>>

InitAdv == LoadedAdv(DEFAULT_SETTINGS, <<"#", " ", "a">>)

NextAdv ==
  \/ \E d \in AdvDocs : AdvUserEdit(d)
  \/ \E f \in Files, name \in Names : AdvUserRename(f, name)
  \/ \E f \in Files : AdvUserOpen(f)
  \/ \E source \in TitleTypes, target \in TitleTypes : AdvCmdSync(source, target)
  \/ AdvRunHandler
  \/ \E t \in BagToSet(passes) : SetFromFileRead(t)
  \/ \E t \in BagToSet(passes) : ContentRead(t)
  \/ \E t \in BagToSet(passes) : JobRead(t)
  \/ \E t \in BagToSet(passes) : AdvRenameApply(t)
  \/ \E t \in BagToSet(passes) : AdvRenameReject(t)
  \/ \E t \in BagToSet(passes) : AdvRenameDone(t)
  \/ AdvApplyWrite

SpecAdv == InitAdv /\ [][NextAdv]_vars

-----------------------------------------------------------------------------
(* Properties of the advanced variant                                      *)

\* Nothing of the plugin is executing: no handler is due, no call is in
\* flight and no write is on its way.
AdvIdle == deferred = <<>> /\ passes = EmptyBag /\ writes = <<>>

\* C6: in the advanced variant isRenameInProgress is false whenever no
\* handler or setTitle call is executing, whichever way the call ended.
C6_FlagIdle == AdvIdle => ~isRenameInProgress

\* ---- the three titles under other sync settings ----

\* The settings: the file name goes to both content titles; the content
\* titles go to each other and to the file name, or to the file name only;
\* either of them has precedence
TitleSettings ==
  { [DEFAULT_SETTINGS EXCEPT !.syncFilename = {"heading", "frontmatter"},
                             !.syncHeading = c[1],
                             !.syncFrontmatter = c[2],
                             !.contentPrecedence = p] :
      c \in { <<{"frontmatter", "filename"}, {"heading", "filename"}>>,
              <<{"filename"}, {"filename"}>> },
      p \in {"heading", "frontmatter"} }

TitledDoc(frontmatter, heading) == Fm(frontmatter) \o <<NL, "#", " ">> \o heading

\* What the user leaves in the active file: another heading, another
\* frontmatter title, or both
TitledDocs ==
  { TitledDoc(<<"a">>, <<"c">>), TitledDoc(<<"b">>, <<"a">>), TitledDoc(<<"c">>, <<"b">>) }

\* After onload: f1 "a.md" is open, its heading and frontmatter title are "a"
InitTitles == \E s \in TitleSettings : LoadedAdv(s, TitledDoc(<<"a">>, <<"a">>))

\* Bounds: the number of writes issued and not yet carried out, and the
\* number of rejections counted
MaxWrites == 2
MaxUncaught == 2

Bounded == Len(writes') <= MaxWrites /\ uncaught' <= MaxUncaught

\* The user acts once.
NextTitles ==
  \/ \E d \in TitledDocs : ext.n = 0 /\ AdvUserEdit(d)
  \/ \E f \in Files, name \in Names : ext.n = 0 /\ AdvUserRename(f, name)
  \/ \E f \in Files : ext.n = 0 /\ AdvUserOpen(f)
  \/ \E source \in TitleTypes, target \in TitleTypes :
        ext.n = 0 /\ AdvCmdSync(source, target) /\ Bounded
  \/ AdvRunHandler
  \/ \E t \in BagToSet(passes) : SetFromFileRead(t)
  \/ \E t \in BagToSet(passes) : ContentRead(t) /\ Bounded
  \/ \E t \in BagToSet(passes) : JobRead(t) /\ Bounded
  \/ \E t \in BagToSet(passes) : AdvRenameApply(t)
  \/ \E t \in BagToSet(passes) : AdvRenameReject(t) /\ Bounded
  \/ \E t \in BagToSet(passes) : AdvRenameDone(t) /\ Bounded
  \/ AdvApplyWrite

SpecTitles == InitTitles /\ [][NextTitles]_vars

\* The step in which handleSyncFromContent, both titles read, compares them
\* with the cache entry: its task t leaves the bag
Compares(t) ==
  /\ t \in BagToSet(passes)
  /\ t.op = "job"
  /\ t.pc = "content2"
  /\ CopiesIn(t, passes') < CopiesIn(t, passes)

\* The setTitle and syncTitle calls for file f that the step has started
Started(f) ==
  {u \in BagToSet(passes') :
     u.file = f /\ u.op = "job" /\ CopiesIn(u, passes') > CopiesIn(u, passes)}

\* The call u, and all it goes on to do, takes the title from source only
Uses(u, title, source) ==
  /\ u.pc \in {"read", "rename"} => u.val = title
  /\ u.pc = "sync-read" => u.src = source
  /\ \A k \in 1..Len(u.todo) :
       IF u.todo[k].kind = "set" THEN u.todo[k].title = title
       ELSE u.todo[k].src = source

\* The call u sets the target to the title, now or later on
Sets(u, title, target) ==
  \/ u.pc \in {"read", "rename"} /\ u.target = target /\ u.val = title
  \/ \E k \in 1..Len(u.todo) : u.todo[k] = SetOp(title, target)

\* C31: when the modify handler finds, for a file with a cache entry, that
\* exactly one of heading and frontmatter title differs from the cached
\* value, it writes the changed value to every target enabled for that
\* source, the content target first and the file name after it, and the
\* refresh of the cache entry follows.
C31_OneChanged ==
  [][\A t \in BagToSet(passes) :
       LET f == t.file
           entry == CacheEntry(titleCache, Path(f))
           heading == getTitle(f, data[f], "heading")
           frontmatter == t.val
           changedH == heading # entry.heading
           changedF == frontmatter # entry.frontmatter
           title == IF changedH THEN heading ELSE frontmatter
           other == IF changedH THEN "frontmatter" ELSE "heading"
           targets == IF changedH THEN settings.syncHeading
                      ELSE settings.syncFrontmatter
       IN  (Compares(t) /\ CacheHas(titleCache, Path(f)) /\ changedH # changedF)
             => /\ other \in targets
                     => /\ \E u \in Started(f) :
                             u.pc = "read" /\ u.target = other /\ u.val = title
                        /\ \A u \in Started(f) : u.pc # "rename"
                /\ "filename" \in targets
                     => \/ sanitizeHeading(basename[f]) = title
                        \/ \E u \in Started(f) : Sets(u, title, "filename")
                /\ \E u \in BagToSet(passes') :
                     /\ u.file = f
                     /\ u.tail = "content" \/ u.op = "setFromFile"
                     /\ CopiesIn(u, passes') > CopiesIn(u, passes)]_vars

\* C32: when the modify handler finds that both the heading and the
\* frontmatter title differ from the cached values, every setTitle and
\* syncTitle call of the round takes the title of the contentPrecedence
\* source, whatever syncHeading and syncFrontmatter are.
C32_PrecedenceOnly ==
  [][\A t \in BagToSet(passes) :
       LET f == t.file
           entry == CacheEntry(titleCache, Path(f))
           heading == getTitle(f, data[f], "heading")
           frontmatter == t.val
           source == settings.contentPrecedence
           title == IF source = "heading" THEN heading ELSE frontmatter
       IN  (/\ Compares(t)
            /\ CacheHas(titleCache, Path(f))
            /\ heading # entry.heading
            /\ frontmatter # entry.frontmatter)
             => \A u \in Started(f) : Uses(u, title, source)]_vars

\* C33: after a rename event for a non-ignored file, with the file name
\* synced to the heading and to the frontmatter title, once every read and
\* write issued has completed both the first heading and the frontmatter
\* title are the sanitized new base name: neither whole-file write has
\* overwritten the other's update.
C33_BothTitles ==
  (ext.n = 1 /\ ext.kind = "rename" /\ ~ext.ignored /\ AdvIdle)
    => LET f == ext.file
       IN  /\ getTitle(f, data[f], "heading") = sanitizeHeading(basename[f])
           /\ getTitle(f, data[f], "frontmatter") = sanitizeHeading(basename[f])

-----------------------------------------------------------------------------
(* The frontmatter title of the advanced variant as a pure function.       *)

RECURSIVE DocsOf(_, _)
DocsOf(lines, n) ==
  IF n = 1 THEN {<<l>> : l \in lines}
  ELSE DocsOf(lines, n - 1) \cup {Append(d, l) : d \in DocsOf(lines, n - 1), l \in lines}

Quote == "\""
TitleKey == <<"t", "i", "t", "l", "e">>

\* The lines of a frontmatter: a delimiter, the title key with a plain
\* value, that value with a trailing blank, a quoted, a half-quoted and an
\* empty value, the key without its blank, the key indented, and another
\* line
FmLines ==
  { Delimiter,
    TitleKey \o <<":", " ", "a">>,
    TitleKey \o <<":", " ", "a", " ">>,
    TitleKey \o <<":", " ", Quote, "b", Quote>>,
    TitleKey \o <<":", " ", Quote, "c">>,
    TitleKey \o <<":", " ">>,
    TitleKey \o <<":", "d">>,
    <<" ">> \o TitleKey \o <<":", " ", "e">>,
    <<"x">> }

InitFm ==
  /\ arg \in DocsOf(FmLines, MaxLines)
  /\ res = <<>>
  /\ settings = DEFAULT_SETTINGS
  /\ basename = [f \in Files |-> IF f = "f1" THEN A ELSE B]
  /\ data = [f \in Files |-> <<>>]
  /\ fileCache = [f \in Files |-> EmptyObject]
  /\ extension = [f \in Files |-> "md"]
  /\ PureRest

\* const frontmatter = this.findFrontmatterTitle(lines);
FrontmatterStep ==
  /\ res = <<>>
  /\ res' = <<findFrontmatterTitle(arg)>>
  /\ PureFrame

NextFm == FrontmatterStep

SpecFm == InitFm /\ [][NextFm]_vars

\* The lines that start with the key and a blank, the closing delimiters,
\* and the key lines above every closing delimiter
KeyLines == {i \in LineNumbers : i >= 1 /\ StartsWith(LineAt(i), TitleKey \o <<":", " ">>)}
Closers == {i \in LineNumbers : i >= 1 /\ LineAt(i) = Delimiter}
TitleLines == {i \in KeyLines : \A c \in Closers : i < c}
\* The value of a key line, and the value with a double quote at its start
\* and a double quote at its end removed
ValueAt(i) == SubSeq(LineAt(i), Len(TitleKey) + 3, Len(LineAt(i)))
Unquoted(v) ==
  LET from == IF v # <<>> /\ v[1] = Quote THEN 2 ELSE 1
      to == IF Len(v) >= from /\ v[Len(v)] = Quote THEN Len(v) - 1 ELSE Len(v)
  IN  SubSeq(v, from, to)

C23_QuotedFound ==
  /\ Len(res) = 1
  /\ res[1] # NoHeading
  /\ res[1].text = <<"b">>
  /\ Cardinality(TitleLines) = 2

\* The base names of the file whose frontmatter title is written
FmNames == { <<"t">>, A }

InitFmWrite ==
  /\ arg \in DocsOf(FmLines, MaxLines)
  /\ res = <<>>
  /\ settings = DEFAULT_SETTINGS
  /\ \E n \in FmNames : basename = [f \in Files |-> IF f = "f1" THEN n ELSE SpaceB]
  /\ data = [f \in Files |-> Join(arg)]
  /\ fileCache = [f \in Files |-> EmptyObject]
  /\ extension = [f \in Files |-> "md"]
  /\ PureRest

\* syncTitle(f1, Filename, Frontmatter): the title is getTitle(f1, Filename)
\* and setTitle's vault.read callback writes it; the data of its
\* vault.modify calls
FmWriteStep ==
  /\ res = <<>>
  /\ res' = <<setTitleEdits(Split(data["f1"]),
                            getTitle("f1", data["f1"], "filename"), "frontmatter")>>
  /\ PureFrame

NextFmWrite == FmWriteStep

SpecFmWrite == InitFmWrite /\ [][NextFmWrite]_vars

\* The title written, its line, and the document after setTitle
FmTitle == sanitizeHeading(basename["f1"])
FmKeyLine == TitleKey \o <<":", " ", Quote>> \o FmTitle \o <<Quote>>
FmAfter == IF res[1] = <<>> THEN arg ELSE Split(res[1][Len(res[1])])
FmFound == LineAt(0) = Delimiter /\ TitleLines # {}

\* C28 as stated: the write replaces the title line found, else inserts the
\* key line after the opening delimiter, else prepends a block of its own;
\* the title is then found in the document, and the other lines are
\* unchanged.
C28_FrontmatterWrite ==
  Len(res) = 1 =>
    /\ findFrontmatterTitle(FmAfter).text = FmTitle
    /\ FmAfter =
          IF FmFound THEN [arg EXCEPT ![Min(TitleLines) + 1] = FmKeyLine]
          ELSE IF LineAt(0) = Delimiter THEN <<Delimiter, FmKeyLine>> \o Tail(arg)
          ELSE <<Delimiter, FmKeyLine, Delimiter>> \o arg

\* C28 amended: a title line found is replaced unless its sanitized value
\* is the title already; when a write is made the title is then found in
\* the written document and the other lines are unchanged, but for an
\* empty last line added when the document is the opening delimiter alone.
C28_FrontmatterWritten ==
  Len(res) = 1 =>
    /\ res[1] = <<>> <=>
          (FmFound /\ sanitizeHeading(Unquoted(ValueAt(Min(TitleLines)))) = FmTitle)
    /\ res[1] # <<>> =>
          /\ findFrontmatterTitle(FmAfter).text = FmTitle
          /\ findFrontmatterTitle(FmAfter).style = "Frontmatter"
          /\ FmAfter =
                IF FmFound THEN [arg EXCEPT ![Min(TitleLines) + 1] = FmKeyLine]
                ELSE IF arg = <<Delimiter>> THEN <<Delimiter, FmKeyLine, <<>> >>
                ELSE IF LineAt(0) = Delimiter THEN <<Delimiter, FmKeyLine>> \o Tail(arg)
                ELSE <<Delimiter, FmKeyLine, Delimiter>> \o arg

\* the key line was inserted into a frontmatter that had no title above
\* its closing delimiter
C28_InsertedInBlock ==
  /\ Len(res) = 1
  /\ res[1] # <<>>
  /\ LineAt(0) = Delimiter
  /\ ~FmFound
  /\ Closers # {}
  /\ KeyLines # {}

-----------------------------------------------------------------------------
(* The rewriter as a pure function: forceSyncFilenameToHeading's read      *)
(* callback on a document, for every heading style setting.                *)

\* The lines of a document
EditLines == { Delimiter, <<"#", " ", "a">>, <<"x">>, <<"=", "=">>, <<>>, Fence }

\* The base names: plain, and with one backtick
EditNames == { <<"t">>, <<"a", BackTick>> }

EditSettings ==
  { [DEFAULT_SETTINGS EXCEPT !.newHeadingStyle = n, !.replaceStyle = r,
                             !.underlineString = u] :
      n \in {"Prefix", "Underline"}, r \in BOOLEAN,
      u \in { <<"=", "=", "=">>, <<"-">> } }

InitEdit ==
  /\ arg \in DocsOf(EditLines, MaxLines)
  /\ res = <<>>
  /\ settings \in EditSettings
  /\ \E n \in EditNames : basename = [f \in Files |-> IF f = "f1" THEN n ELSE SpaceB]
  /\ data = [f \in Files |-> Join(arg)]
  /\ fileCache = [f \in Files |-> EmptyObject]
  /\ extension = [f \in Files |-> "md"]
  /\ PureRest

\* The vault.read callback of forceSyncFilenameToHeading on f1: the data of
\* its vault.modify calls
EditStep ==
  /\ res = <<>>
  /\ res' = <<filenameToHeading(Split(data["f1"]), sanitizeHeading(basename["f1"]))>>
  /\ PureFrame

NextEdit == EditStep

SpecEdit == InitEdit /\ [][NextEdit]_vars

\* The document before, its note start and heading, the title, and the
\* document as the last vault.modify left it
EditStart == findNoteStart(arg)
EditHeading == findHeading(arg, EditStart)
EditTitle == sanitizeHeading(basename["f1"])
Written == Split(res[1][Len(res[1])])
Wrote == Len(res) = 1 /\ res[1] # <<>>
Inserted == Wrote /\ EditHeading = NoHeading
Replaced == Wrote /\ EditHeading # NoHeading
\* line i (zero-based) of a document, <<"(none)">> beyond its end
LineOf(doc, i) == IF i + 1 \in 1..Len(doc) THEN doc[i + 1] ELSE <<"(none)">>

\* C24: round trip for the Prefix style: a non-empty title inserted at the
\* note start of a document without a heading is found again in the written
\* text, as a Prefix heading with the same text at the insertion line.
C24_RoundTripPrefix ==
  (Inserted /\ settings.newHeadingStyle = "Prefix" /\ EditTitle # <<>>) =>
    findHeading(Written, findNoteStart(Written)) =
      [lineNumber |-> EditStart, text |-> EditTitle, style |-> "Prefix"]

\* C25: with the Underline style, an insertion at line n leaves the title at
\* line n and the underline string at line n + 1, also when n is the
\* number of lines; with an underline of '=' the heading is then found as
\* an Underline heading with the same title.
C25_InsertUnderline ==
  (Inserted /\ settings.newHeadingStyle = "Underline") =>
    /\ LineOf(Written, EditStart) = EditTitle
    /\ LineOf(Written, EditStart + 1) = settings.underlineString
    /\ IsUnderline(settings.underlineString) =>
         findHeading(Written, findNoteStart(Written)) =
           [lineNumber |-> EditStart, text |-> EditTitle, style |-> "Underline"]

\* C26: with replaceStyle disabled a replacement keeps the style: the line
\* count and every line but the heading line are unchanged, and the heading
\* line is '# <title>' for Prefix and '<title>' for Underline.
C26_KeepsStyle ==
  (Replaced /\ ~settings.replaceStyle) =>
    /\ Len(Written) = Len(arg)
    /\ \A i \in LineNumbers : i # EditHeading.lineNumber => LineOf(Written, i) = LineAt(i)
    /\ LineOf(Written, EditHeading.lineNumber) =
          IF EditHeading.style = "Prefix" THEN <<"#", " ">> \o EditTitle ELSE EditTitle

\* an Underline heading was replaced while the style for new headings is
\* Prefix
C26_UnderlineKept ==
  /\ Replaced
  /\ ~settings.replaceStyle
  /\ EditHeading.style = "Underline"
  /\ settings.newHeadingStyle = "Prefix"

\* The lines of doc without line i
Without(doc, i) == SubSeq(doc, 1, i) \o SubSeq(doc, i + 2, Len(doc))

\* C27: with replaceStyle enabled a replacement converts the heading to
\* newHeadingStyle: Prefix to Underline adds the underline line below the
\* title (one line more), Underline to Prefix removes the old underline
\* line (one line less), Prefix to Prefix changes the text only, Underline
\* to Underline changes the text and the underline line; the other lines
\* keep their content and order.
C27_Converts ==
  (Replaced /\ settings.replaceStyle) =>
    LET n == EditHeading.lineNumber
        old == EditHeading.style
        new == settings.newHeadingStyle
        title == IF new = "Prefix" THEN <<"#", " ">> \o EditTitle ELSE EditTitle
    IN  /\ LineOf(Written, n) = title
        /\ (old = "Prefix" /\ new = "Underline") =>
              /\ Len(Written) = Len(arg) + 1
              /\ LineOf(Written, n + 1) = settings.underlineString
              /\ Without(Without(Written, n + 1), n) = Without(arg, n)
        /\ (old = "Underline" /\ new = "Prefix") =>
              /\ Len(Written) = Len(arg) - 1
              /\ Without(Written, n) = Without(Without(arg, n + 1), n)
        /\ (old = "Prefix" /\ new = "Prefix") =>
              /\ Len(Written) = Len(arg)
              /\ Without(Written, n) = Without(arg, n)
        /\ (old = "Underline" /\ new = "Underline") =>
              /\ Len(Written) = Len(arg)
              /\ LineOf(Written, n + 1) = settings.underlineString
              /\ Without(Without(Written, n + 1), n) = Without(Without(arg, n + 1), n)

\* C35: filename-to-heading sync is idempotent: a second run of
\* forceSyncFilenameToHeading on the text the first run has written, with
\* the same base name, issues no write.
C35_SecondRunSilent ==
  Wrote => filenameToHeading(Written, EditTitle) = <<>>

-----------------------------------------------------------------------------
(* TitleCache on its own: a cache of a small capacity and the operations   *)
(* applied to it, kept in arg in the order they were applied.              *)

\* Bounds: the capacity given to the constructor, and the number of
\* operations applied.
CacheMaxSize == 2
MaxOps == 4

CachePaths == {"p1", "p2", "p3", "p4"}

CacheOp(op, path, to) == [op |-> op, path |-> path, to |-> to]

InitCache ==
  /\ arg = <<>>
  /\ res = <<>>
  /\ titleCache = <<>>
  /\ settings = DEFAULT_SETTINGS
  /\ basename = [f \in Files |-> IF f = "f1" THEN A ELSE B]
  /\ data = [f \in Files |-> <<>>]
  /\ fileCache = [f \in Files |-> EmptyObject]
  /\ extension = [f \in Files |-> "md"]
  /\ templaterEnabled = FALSE
  /\ editor = [f \in Files |-> NoData]
  /\ activeFile = NoFile
  /\ isRenameInProgress = FALSE
  /\ renameDebounceTimer = NoTimer
  /\ deferred = <<>>
  /\ passes = EmptyBag
  /\ writes = <<>>
  /\ uncaught = 0
  /\ ext = NoExt
  /\ lastRename = "none"
  /\ sinceModify = RenameDebounceTimeout
  /\ timers = EmptyBag
  /\ loaded = TRUE

CacheFrame ==
  UNCHANGED <<settings, templaterEnabled, basename, data, fileCache, extension,
              editor, activeFile, isRenameInProgress, renameDebounceTimer,
              deferred, passes, writes, uncaught, ext, lastRename,
              sinceModify, res, timers, loaded>>

\* titleCache.get(path)
CacheGet(path) ==
  /\ Len(arg) < MaxOps
  /\ titleCache' = TitleCacheGet(titleCache, path)
  /\ arg' = Append(arg, CacheOp("get", path, path))
  /\ CacheFrame

\* titleCache.set(path, entry), also the end of setFromFile
CacheSet(path) ==
  /\ Len(arg) < MaxOps
  /\ titleCache' = TitleCacheSetAt(titleCache, CacheMaxSize, path, Null, Null)
  /\ arg' = Append(arg, CacheOp("set", path, path))
  /\ CacheFrame

\* titleCache.move(oldPath, newPath) after a rename
CacheMove(oldPath, newPath) ==
  /\ Len(arg) < MaxOps
  /\ oldPath # newPath
  /\ titleCache' = TitleCacheMove(titleCache, oldPath, newPath)
  /\ arg' = Append(arg, CacheOp("move", oldPath, newPath))
  /\ CacheFrame

NextCache ==
  \/ \E path \in CachePaths : CacheGet(path)
  \/ \E path \in CachePaths : CacheSet(path)
  \/ \E oldPath \in CachePaths, newPath \in CachePaths : CacheMove(oldPath, newPath)

SpecCache == InitCache /\ [][NextCache]_vars

CachedPaths == {titleCache[i].path : i \in 1..Len(titleCache)}
PathsSet == {arg[i].path : i \in {k \in 1..Len(arg) : arg[k].op = "set"}}

\* C29: TitleCache is bounded: after any sequence of set, setFromFile, get
\* and move operations it holds at most maxSize entries.
C29_Bounded == Len(titleCache) <= CacheMaxSize

\* the cache is full after more paths were set than it can hold, and a
\* move has been applied
C29_Full ==
  /\ Len(titleCache) = CacheMaxSize
  /\ Cardinality(PathsSet) > CacheMaxSize
  /\ \E i \in 1..Len(arg) : arg[i].op = "move"

\* The reference: a least-recently-used list of paths of capacity
\* CacheMaxSize, least recently touched first; get and set both make the
\* path the most recent one, and set of a new path at capacity drops the
\* least recent one
Touch(lru, path) == SelectSeq(lru, LAMBDA q : q # path) \o <<path>>
LruApply(lru, o) ==
  IF \E i \in 1..Len(lru) : lru[i] = o.path THEN Touch(lru, o.path)
  ELSE IF o.op = "get" THEN lru
  ELSE IF Len(lru) >= CacheMaxSize THEN Append(Tail(lru), o.path)
  ELSE Append(lru, o.path)
RECURSIVE LruAfter(_)
LruAfter(ops) ==
  IF ops = <<>> THEN <<>>
  ELSE LruApply(LruAfter(SubSeq(ops, 1, Len(ops) - 1)), ops[Len(ops)])

\* C30: after any sequence of get and set operations TitleCache holds the
\* same paths as the reference least-recently-used cache of the same
\* capacity.
C30_LikeLru ==
  (\A i \in 1..Len(arg) : arg[i].op \in {"get", "set"}) =>
    CachedPaths = {LruAfter(arg)[i] : i \in 1..Len(LruAfter(arg))}

====
